---- MODULE Spec2Model ----
(***************************************************************************)
(* A model of the games-automation batch job: ingestion of reader e-mail   *)
(* into the Submissions sheet (modules/mail.py), grading of submissions    *)
(* against the Games windows (modules/grading.py) and the recomputation of *)
(* the Winners sheet (modules/winners.py).                                 *)
(*                                                                         *)
(* Sheets are sequences of data rows (row 3 onward; element i is sheet row *)
(* i + 2).  Cells are strings.  Times are minute indices 1, 2, 3 that the  *)
(* cells hold in one of the two textual forms the code produces.           *)
(***************************************************************************)
EXTENDS Integers, Sequences, FiniteSets, TLC

VARIABLES
    games,        \* Games sheet, data rows
    subs,         \* Submissions sheet, data rows
    winners,      \* Winners sheet, data rows
    prevWinners,  \* Previous Winners sheet, the cells of its Email column
    mailbox,      \* the labelled messages the mail backend lists
    hist,         \* history: the last operation and what it saw and did
    call,         \* the last call of a pure function: its name and result
    wrapper,      \* a resilient call wrapper in progress: attempt, wait, sleeps
    run,          \* one run of main: the phase in progress and what has returned
    gate          \* the throttle gate: clock, lock, shared counters, threads

vars == <<games, subs, winners, prevWinners, mailbox, hist, call, wrapper, run, gate>>

\* the resilient layer at rest, for the specifications of the data phases
Idle == [pc |-> "idle"]

(***************************************************************************)
(* Strings.  str.strip() and str.lower() on the vocabulary of the model.   *)
(***************************************************************************)
Strip(s) ==
    CASE s = " Correct " -> "Correct"
      [] s = " Incorrect " -> "Incorrect"
      [] s = "  " -> ""
      [] s = " Riddler " -> "Riddler"
      [] OTHER -> s

Lower(s) ==
    CASE s = "Correct" -> "correct"
      [] s = "CORRECT" -> "correct"
      [] s = " Correct " -> " correct "
      [] s = "Incorrect" -> "incorrect"
      [] s = "INCORRECT" -> "incorrect"
      [] s = " Incorrect " -> " incorrect "
      [] s = "Uncertain" -> "uncertain"
      [] s = "Riddler" -> "riddler"
      [] s = "RIDDLER" -> "riddler"
      [] s = " Riddler " -> " riddler "
      [] s = "Scrambler" -> "scrambler"
      [] s = "Puzzler" -> "puzzler"
      [] s = "A@x.com" -> "a@x.com"
      [] s = "B@x.com" -> "b@x.com"
      [] s = "NA" -> "na"
      [] s = "Declined" -> "declined"
      [] s = "Amy" -> "amy"
      [] s = "Amy K." -> "amy k."
      [] s = "Ben" -> "ben"
      [] s = "Ben L." -> "ben l."
      [] s = "AI: logic" -> "ai: logic"
      [] s = "Riddler@SpotlightPA.org" -> "riddler@spotlightpa.org"
      [] s = "Approve: https://groups.google.com/x" -> "approve: https://groups.google.com/x"
      [] s = "Amy K" -> "amy k"
      [] s = "Amy via Riddler" -> "amy via riddler"
      [] s = "Amy Via Riddler" -> "amy via riddler"
      [] OTHER -> s

\* Python's order on the lowercased strings that are used as sort keys.
StrOrd(s) ==
    CASE s = "" -> 0
      [] s = "a@x.com" -> 1
      [] s = "amy" -> 2
      [] s = "amy k." -> 3
      [] s = "b@x.com" -> 4
      [] s = "ben" -> 5
      [] s = "ben l." -> 6
      [] s = "riddler" -> 7
      [] s = "scrambler" -> 8
      [] OTHER -> 9

(***************************************************************************)
(* Times.  dateutil's parser.parse on the timestamp strings of the model;  *)
(* None (empty or unparseable) is 0, which is falsy like None.             *)
(***************************************************************************)
Times == {1, 2, 3}

None == 0

_parse_dt_safe(s) ==
    CASE s = "01/06/2025 09:00 AM" -> 1
      [] s = "01/06/2025 9:00 AM" -> 1
      [] s = "01/06/2025 12:00 PM" -> 2
      [] s = "01/07/2025 09:00 AM" -> 3
      [] s = "01/07/2025 9:00 AM" -> 3
      [] OTHER -> None

\* dt.strftime("%m/%d/%Y %I:%M %p")
Strftime(dt) ==
    CASE dt = 1 -> "01/06/2025 09:00 AM"
      [] dt = 2 -> "01/06/2025 12:00 PM"
      [] dt = 3 -> "01/07/2025 09:00 AM"
      [] OTHER -> ""

\* s.replace(" 0", " ", 1) on the strftime output
ReplaceFirstSpaceZero(s) ==
    CASE s = "01/06/2025 09:00 AM" -> "01/06/2025 9:00 AM"
      [] s = "01/07/2025 09:00 AM" -> "01/07/2025 9:00 AM"
      [] OTHER -> s

_fmt_dt(dt) == ReplaceFirstSpaceZero(Strftime(dt))

(***************************************************************************)
(* Sequences.                                                              *)
(***************************************************************************)
Min(S) == CHOOSE x \in S : \A y \in S : x <= y

Max(S) == CHOOSE x \in S : \A y \in S : x >= y

\* sorted(s, key=...) / list.sort(key=...): Python's sort is stable.  k[i] is
\* the key of s[i].
StableSort(s, k) ==
    [i \in 1..Len(s) |->
        s[CHOOSE j \in 1..Len(s) :
            Cardinality({m \in 1..Len(s) :
                k[m] < k[j] \/ (k[m] = k[j] /\ m < j)}) = i - 1]]

\* the history record h with the fields of r noted in it
Noted(h, r) ==
    [k \in DOMAIN h \cup DOMAIN r |-> IF k \in DOMAIN r THEN r[k] ELSE h[k]]

\* the elements of s at the indices in S, in order
RECURSIVE Pick(_, _)
Pick(s, S) ==
    IF S = {} THEN <<>>
    ELSE <<s[Min(S)]>> \o Pick(s, S \ {Min(S)})

(***************************************************************************)
(* Game Window Index (grading.py).                                         *)
(***************************************************************************)
NoGame == [game |-> "", start_dt |-> None, end_dt |-> None, grading |-> "",
           row_number |-> 0]

\* one pass of the loop body of build_games_index for sheet row n
GameEntry(row, n) ==
    [game |-> Strip(row.game),
     start_dt |-> _parse_dt_safe(Strip(row.start)),
     end_dt |-> _parse_dt_safe(Strip(row.end)),
     grading |-> Strip(row.grading),
     row_number |-> n]

Playable(e) == ~(e.game = "" \/ e.start_dt = None \/ e.end_dt = None)

GameSortKey(e) == StrOrd(Lower(e.game)) * 10 + e.start_dt

\* build_games_index without the final sort
build_games_index_unsorted(rows) ==
    LET all == [i \in 1..Len(rows) |-> GameEntry(rows[i], i + 2)]
    IN  Pick(all, {i \in 1..Len(rows) : Playable(all[i])})

build_games_index(rows) ==
    LET all == [i \in 1..Len(rows) |-> GameEntry(rows[i], i + 2)]
        index == Pick(all, {i \in 1..Len(rows) : Playable(all[i])})
    IN  StableSort(index, [i \in 1..Len(index) |-> GameSortKey(index[i])])

\* next((r for r in seq if ...), None) as the index of the first hit, 0 if none
FirstIn(S) == IF S = {} THEN 0 ELSE Min(S)

\* find_game_for_submission with the window open at its end
find_game_open_end(game_type, submission_dt, games_index) ==
    IF submission_dt = None \/ game_type = "" THEN NoGame
    ELSE LET gtype == Lower(Strip(game_type))
             hit == FirstIn({i \in 1..Len(games_index) :
                        /\ Lower(Strip(games_index[i].game)) = gtype
                        /\ games_index[i].start_dt <= submission_dt
                        /\ submission_dt < games_index[i].end_dt})
         IN  IF hit = 0 THEN NoGame ELSE games_index[hit]

find_game_for_submission(game_type, submission_dt, games_index) ==
    IF submission_dt = None \/ game_type = "" THEN NoGame
    ELSE LET gtype == Lower(Strip(game_type))
             hit == FirstIn({i \in 1..Len(games_index) :
                        /\ Lower(Strip(games_index[i].game)) = gtype
                        /\ games_index[i].start_dt <= submission_dt
                        /\ submission_dt <= games_index[i].end_dt})
         IN  IF hit = 0 THEN NoGame ELSE games_index[hit]

\* by_game[...] of grade_submissions_for_sheet: the windows of one key, in
\* index order
ByGame(games_index, key) ==
    Pick(games_index, {i \in 1..Len(games_index) :
                          Lower(Strip(games_index[i].game)) = key})

\* the match of grade_submissions_for_sheet with the first window of the
\* game type taken when none contains the submission
GradeMatchNearest(game_type, sub_dt, games_index) ==
    LET candidates == ByGame(games_index, Lower(game_type))
        hit == FirstIn({i \in 1..Len(candidates) :
                            /\ candidates[i].start_dt <= sub_dt
                            /\ sub_dt <= candidates[i].end_dt})
    IN  IF candidates = <<>> THEN NoGame
        ELSE IF hit = 0 THEN candidates[1] ELSE candidates[hit]

\* the match of grade_submissions_for_sheet for a stripped Game cell
GradeMatch(game_type, sub_dt, games_index) ==
    LET candidates == ByGame(games_index, Lower(game_type))
        hit == FirstIn({i \in 1..Len(candidates) :
                            /\ candidates[i].start_dt <= sub_dt
                            /\ sub_dt <= candidates[i].end_dt})
    IN  IF hit = 0 THEN NoGame ELSE candidates[hit]

\* is_marked_correct with the AI grade counted whatever the override
is_marked_correct_no_precedence(entry) ==
    Lower(Strip(entry.override)) = "correct" \/ Lower(Strip(entry.grade)) = "correct"

is_marked_correct(entry) ==
    LET override == Lower(Strip(entry.override))
        grade == Lower(Strip(entry.grade))
    IN  override = "correct" \/ (override = "" /\ grade = "correct")

(***************************************************************************)
(* Grading Orchestrator (grading.py, grade_submissions_for_sheet).         *)
(***************************************************************************)
\* what grade_submission_entry can return, and the (Uncertain, N/A) of a
\* failed grading-service call
Verdicts == {<<"Correct", "90%">>, <<"Incorrect", "90%">>, <<"Uncertain", "N/A">>}

\* s.lower().startswith("ai:")
StartsWithAi(s) == Lower(s) = "ai: logic"

\* final_output.strip() for the rubric text "logic" of the grading service
FinalOutput(grading_prompt) ==
    IF grading_prompt = "" THEN "AI: logic" ELSE grading_prompt \o "\nAI: logic"

\* not grading_prompt or not grading_prompt.lower().startswith("ai:")
NeedsRubric(grading_prompt) == grading_prompt = "" \/ ~StartsWithAi(grading_prompt)

\* the window a Submissions row is graded against, NoGame when the loop body
\* reaches a continue
RowMatch(row, games_index) ==
    IF Strip(row.grade) # "" THEN NoGame
    ELSE IF Strip(row.game) = "" \/ Strip(row.ts) = "" \/ Strip(row.answer) = ""
         THEN NoGame
    ELSE IF _parse_dt_safe(Strip(row.ts)) = None THEN NoGame
    ELSE GradeMatch(Strip(row.game), _parse_dt_safe(Strip(row.ts)), games_index)

\* the rows that reach out_updates.append
OutUpdates(rows, games_index) ==
    IF games_index = <<>> THEN {}
    ELSE {i \in 1..Len(rows) : RowMatch(rows[i], games_index) # NoGame}

\* the cells of one row of the block that is written over min_row..max_row
BlockRow(i, out, v) ==
    IF i \in out THEN [grade |-> v[i][1], conf |-> v[i][2]]
    ELSE [grade |-> "", conf |-> ""]

\* the Submissions rows after ws_sub.update(<grade col>min_row:<conf col>max_row, block)
WriteBlock(rows, out, v) ==
    IF out = {} THEN rows
    ELSE [i \in 1..Len(rows) |->
            IF i \in Min(out)..Max(out)
            THEN [rows[i] EXCEPT !.grade = BlockRow(i, out, v).grade,
                                 !.conf = BlockRow(i, out, v).conf]
            ELSE rows[i]]

\* the rows of out for which the pass calls generate_grading_logic
RubricRows(rows, out, games_index) ==
    {i \in out : NeedsRubric(RowMatch(rows[i], games_index).grading)}

\* the Games rows (indices of data rows) the pass writes a rubric into
RubricWrites(rows, out, games_index) ==
    {RowMatch(rows[i], games_index).row_number - 2 :
        i \in RubricRows(rows, out, games_index)}

\* the Games rows after ws.update_cell (or ws.batch_update) wrote the
\* rubric into the rows of wrote
WriteRubrics(grows, wrote) ==
    [n \in 1..Len(grows) |->
        IF n \in wrote
        THEN [grows[n] EXCEPT !.grading = FinalOutput(Strip(grows[n].grading))]
        ELSE grows[n]]

MaxRubricRuns == 2

\* One grading pass.  f is the row at which generate_grading_logic raises
\* (0 when it never does): the exception leaves the function, the rubrics
\* written for the rows before f stay and ws_sub.update is not reached.  A
\* failed verdict call is the verdict (Uncertain, N/A).
grade_submissions_for_sheet ==
    \E games_index \in {build_games_index(games)} :
    \E out \in {OutUpdates(subs, games_index)} :
    \E f \in RubricRows(subs, out, games_index) \cup {0} :
    \E done \in {IF f = 0 THEN out ELSE {i \in out : i < f}} :
    \E wrote \in {RubricWrites(subs, done, games_index)} :
    \E asked \in {RubricWrites(subs, done \cup (out \cap {f}), games_index)} :
        /\ wrote = {} \/ hist.rubric_runs < MaxRubricRuns
        /\ \/ f = 0 /\ \E v \in [out -> Verdicts] : subs' = WriteBlock(subs, out, v)
           \/ f # 0 /\ subs' = subs
        /\ games' = WriteRubrics(games, wrote)
        /\ hist' = Noted(hist,
                   [op |-> IF f = 0 THEN "grade" ELSE "grade_failed",
                    preSubs |-> subs,
                    gradedBefore |-> hist.graded, calls |-> done,
                    graded |-> IF f = 0 THEN hist.graded \cup out ELSE hist.graded,
                    todo |-> out, failed |-> f,
                    rubric_calls |-> asked, rubric_writes |-> wrote,
                    rubric_rows |-> RubricRows(subs, done, games_index),
                    authoredBefore |-> hist.authored,
                    authored |-> hist.authored \cup wrote,
                    rubric_runs |-> IF wrote = {} THEN hist.rubric_runs
                                    ELSE hist.rubric_runs + 1])
        /\ UNCHANGED <<wrapper, run, gate, winners, prevWinners, mailbox, call>>

\* the Games rows populate_ai_grading_prompts generates a rubric for
Pending(grows) ==
    {n \in 1..Len(grows) :
        /\ Strip(grows[n].question) # "" /\ Strip(grows[n].answer) # ""
        /\ ~StartsWithAi(Strip(grows[n].grading))}

\* populate_ai_grading_prompts.  f is the pending row at which
\* generate_grading_logic raises (0 when it never does): the exception leaves
\* the function before ws.batch_update.
populate_ai_grading_prompts ==
    \E f \in Pending(games) \cup {0} :
        LET wrote == IF f = 0 THEN Pending(games) ELSE {}
            asked == IF f = 0 THEN Pending(games) ELSE {n \in Pending(games) : n <= f}
        IN  /\ wrote = {} \/ hist.rubric_runs < MaxRubricRuns
            /\ games' = WriteRubrics(games, wrote)
            /\ hist' = [hist EXCEPT !.op = IF f = 0 THEN "prompts" ELSE "prompts_failed",
                                    !.rubric_calls = asked, !.rubric_writes = wrote,
                                    !.authoredBefore = hist.authored,
                                    !.authored = hist.authored \cup wrote,
                                    !.rubric_runs = IF wrote = {} THEN @ ELSE @ + 1]
            /\ UNCHANGED <<wrapper, run, gate, subs, winners, prevWinners, mailbox, call>>

(***************************************************************************)
(* The external editor of the Games sheet adds a window row.               *)
(***************************************************************************)
MaxGames == 2

TsCell == {Strftime(t) : t \in Times}

GameRow(g, s, e, p) == [game |-> g, start |-> Strftime(s), end |-> Strftime(e),
                        question |-> "What am I?", answer |-> "a lighthouse",
                        grading |-> p]

AddGameRow(W) ==
    /\ Len(games) < MaxGames
    /\ \E w \in W : games' = Append(games, w)
    /\ hist' = [hist EXCEPT !.op = "add_game"]
    /\ UNCHANGED <<wrapper, run, gate, subs, winners, prevWinners, mailbox, call>>

(***************************************************************************)
(* Grading passes over a Submissions sheet of graded and ungraded rows.    *)
(***************************************************************************)
MaxSubs == 3

SeqsUpTo(S, n) == UNION {[1..k -> S] : k \in 0..n}

GradeWindows == {GameRow("Riddler", s, e, "") : s \in Times, e \in Times}

GradeSubRows ==
    {[game |-> "Riddler", ts |-> t, first |-> "Amy", last |-> "K",
      email |-> "a@x.com", answer |-> a, grade |-> g[1], conf |-> g[2],
      override |-> "", link |-> ""] :
        t \in TsCell, a \in {"a lighthouse"},
        g \in {<<"", "">>, <<"Correct", "90%">>}}

InitGrade ==
    /\ games = <<>>
    /\ subs \in SeqsUpTo(GradeSubRows, MaxSubs)
    /\ winners = <<>>
    /\ prevWinners = {}
    /\ mailbox = <<>>
    /\ hist = [op |-> "init", preSubs |-> subs, gradedBefore |-> {},
               calls |-> {}, graded |-> {}, todo |-> {}, failed |-> 0,
               rubric_calls |-> {}, rubric_writes |-> {}, authoredBefore |-> {},
               authored |-> {}, rubric_runs |-> 0]
    /\ call = [fn |-> "none"]
    /\ wrapper = Idle /\ run = Idle /\ gate = Idle

NextGrade ==
    \/ grade_submissions_for_sheet
    \/ AddGameRow({w \in GradeWindows : _parse_dt_safe(w.start) < _parse_dt_safe(w.end)})

SpecGrade == InitGrade /\ [][NextGrade]_vars

(***************************************************************************)
(* Rubric resolution: prompt population and grading passes over ungraded   *)
(* rows, with windows whose AI Grading Prompt cell is empty or holds an    *)
(* editor's guidance.                                                      *)
(***************************************************************************)
RubricWindows == {GameRow("Riddler", 1, 3, "Be lenient"), GameRow("Riddler", 2, 3, "")}

RubricSubRows == {r \in GradeSubRows : r.grade = "" /\ r.ts # Strftime(1)}

InitRubric ==
    /\ games = <<>>
    /\ subs \in SeqsUpTo(RubricSubRows, MaxSubs)
    /\ winners = <<>>
    /\ prevWinners = {}
    /\ mailbox = <<>>
    /\ hist = [op |-> "init", preSubs |-> subs, gradedBefore |-> {},
               calls |-> {}, graded |-> {}, todo |-> {}, failed |-> 0,
               rubric_calls |-> {}, rubric_writes |-> {}, authoredBefore |-> {},
               authored |-> {}, rubric_runs |-> 0]
    /\ call = [fn |-> "none"]
    /\ wrapper = Idle /\ run = Idle /\ gate = Idle

NextRubric ==
    \/ grade_submissions_for_sheet
    \/ populate_ai_grading_prompts
    \/ AddGameRow(RubricWindows)

SpecRubric == InitRubric /\ [][NextRubric]_vars

(***************************************************************************)
(* Winner Selection Engine (winners.py, populate_winners_tab): the reading *)
(* of the Games and Submissions sheets and the collection of the correct   *)
(* entries of a window.                                                    *)
(***************************************************************************)
WinnerGame(row, n) ==
    [row |-> n,
     game |-> Strip(row.game),
     start_dt |-> _parse_dt_safe(Strip(row.start)),
     end_dt |-> _parse_dt_safe(Strip(row.end))]

WinnerGames(rows) ==
    LET all == [i \in 1..Len(rows) |-> WinnerGame(rows[i], i + 2)]
        gs == Pick(all, {i \in 1..Len(rows) : Playable(all[i])})
    IN  StableSort(gs, [i \in 1..Len(gs) |->
                          StrOrd(Lower(gs[i].game)) * 10 + gs[i].start_dt])

WinnerSubmission(row, n) ==
    [row |-> n,
     game |-> Strip(row.game),
     dt |-> _parse_dt_safe(Strip(row.ts)),
     first |-> Strip(row.first),
     last |-> Strip(row.last),
     email |-> Strip(row.email),
     grade |-> Strip(row.grade),
     override |-> Strip(row.override),
     link |-> Strip(row.link)]

WinnerSubmissions(rows) == [i \in 1..Len(rows) |-> WinnerSubmission(rows[i], i + 2)]

\* Collected without the test of the email
CollectedWithoutEmail(g, s) ==
    /\ Lower(Strip(s.game)) = Lower(Strip(g.game))
    /\ s.dt # None
    /\ g.start_dt <= s.dt /\ s.dt <= g.end_dt
    /\ is_marked_correct(s)
    /\ s.first # ""

\* the test that guards correct_entries.append(s)
Collected(g, s) ==
    /\ Lower(Strip(s.game)) = Lower(Strip(g.game))
    /\ s.dt # None
    /\ g.start_dt <= s.dt /\ s.dt <= g.end_dt
    /\ is_marked_correct(s)
    /\ s.first # "" /\ s.email # ""

CorrectEntries(g, submissions) ==
    Pick(submissions, {i \in 1..Len(submissions) : Collected(g, submissions[i])})

(***************************************************************************)
(* Calls of the matching functions and of is_marked_correct on a Games     *)
(* sheet and one Submissions row.                                          *)
(***************************************************************************)
MatchWindows ==
    {GameRow(g, s, e, "AI: logic") :
        g \in {"Riddler", "RIDDLER", "Scrambler"}, s \in Times, e \in Times}

SubRow(g, t, gr, ov) ==
    [game |-> g, ts |-> t, first |-> "Amy", last |-> "K", email |-> "a@x.com",
     answer |-> "a lighthouse", grade |-> gr, conf |-> "", override |-> ov,
     link |-> ""]

MatchSubRows ==
    {SubRow(g, t, "Correct", "") :
        g \in {"Riddler", " Riddler ", "Scrambler"}, t \in TsCell \cup {"", "soon"}}

GradeCells == {"", "Correct", "correct", "CORRECT", " Correct ", "Incorrect",
               "Uncertain"}

OverrideCells == {"", "  ", "Correct", "correct", "CORRECT", " Correct ",
                  "Incorrect", "INCORRECT", " Incorrect "}

InitFn ==
    /\ \/ /\ games \in {gs \in SeqsUpTo(MatchWindows, MaxGames) :
                          /\ Len(gs) >= 1
                          /\ \A i \in 1..Len(gs) :
                                _parse_dt_safe(gs[i].start) < _parse_dt_safe(gs[i].end)}
          /\ subs \in {<<s>> : s \in MatchSubRows}
       \/ /\ games = <<GameRow("Riddler", 1, 3, "AI: logic")>>
          /\ subs \in {<<SubRow("Riddler", Strftime(2), gr, ov)>> :
                          gr \in GradeCells, ov \in OverrideCells}
    /\ winners = <<>>
    /\ prevWinners = {}
    /\ mailbox = <<>>
    /\ hist = [op |-> "init"]
    /\ call = [fn |-> "none", res |-> NoGame, ok |-> FALSE, rows |-> {}]
    /\ wrapper = Idle /\ run = Idle /\ gate = Idle

CallFindGame ==
    /\ call' = [fn |-> "find_game_for_submission",
                res |-> find_game_for_submission(subs[1].game,
                            _parse_dt_safe(Strip(subs[1].ts)),
                            build_games_index(games)),
                ok |-> FALSE, rows |-> {}]
    /\ UNCHANGED <<wrapper, run, gate, games, subs, winners, prevWinners, mailbox, hist>>

CallGradeMatch ==
    /\ Strip(subs[1].game) # ""
    /\ _parse_dt_safe(Strip(subs[1].ts)) # None
    /\ call' = [fn |-> "grade_match",
                res |-> GradeMatch(Strip(subs[1].game),
                            _parse_dt_safe(Strip(subs[1].ts)),
                            build_games_index(games)),
                ok |-> FALSE, rows |-> {}]
    /\ UNCHANGED <<wrapper, run, gate, games, subs, winners, prevWinners, mailbox, hist>>

CallCollect ==
    /\ call' = [fn |-> "collect", res |-> NoGame, ok |-> FALSE,
                rows |-> LET gs == WinnerGames(games)
                         IN  {gs[i].row : i \in {j \in 1..Len(gs) :
                                Collected(gs[j], WinnerSubmission(subs[1], 3))}}]
    /\ UNCHANGED <<wrapper, run, gate, games, subs, winners, prevWinners, mailbox, hist>>

CallIsMarkedCorrect ==
    /\ call' = [fn |-> "is_marked_correct", res |-> NoGame,
                ok |-> is_marked_correct(WinnerSubmission(subs[1], 3)),
                rows |-> {}]
    /\ UNCHANGED <<wrapper, run, gate, games, subs, winners, prevWinners, mailbox, hist>>

\* The text of a grading-service response, by what the two searches of
\* _parse_grade_confidence see of it: the word after "Correctness:" and the
\* token after "Confidence:" ("" when the response has no such line).
Responses ==
    [correctness : {"", "Correct", "incorrect", "INCORRECT", "Maybe"},
     confidence : {"", "90", "0.9", "85.5", "84.5", "high"}]

\* re.search(r"Correctness:\s*(Correct|Incorrect)", text, re.IGNORECASE)
GradeParses(text) == Lower(text.correctness) \in {"correct", "incorrect"}

\* m_grade.group(1).capitalize()
Capitalize(s) == IF Lower(s) = "correct" THEN "Correct" ELSE "Incorrect"

\* re.search(r"Confidence:\s*([0-9]+(?:\.[0-9]+)?)\s*%?", text, re.IGNORECASE)
ConfidenceParses(text) == text.confidence \in {"90", "0.9", "85.5", "84.5"}

\* float(m_conf.group(1)), in tenths
Tenths(s) ==
    CASE s = "90" -> 900
      [] s = "0.9" -> 9
      [] s = "85.5" -> 855
      [] s = "84.5" -> 845
      [] OTHER -> 0

\* int(round(val)) of a value in tenths: Python rounds a half to even
RoundHalfEven(t) ==
    LET q == t \div 10
        r == t % 10
    IN  IF r < 5 THEN q
        ELSE IF r > 5 THEN q + 1
        ELSE IF q % 2 = 0 THEN q ELSE q + 1

_parse_grade_confidence(text) ==
    <<IF GradeParses(text) THEN Capitalize(text.correctness) ELSE "Uncertain",
      IF ConfidenceParses(text)
      THEN ToString(RoundHalfEven(IF Tenths(text.confidence) <= 10
                                  THEN Tenths(text.confidence) * 100
                                  ELSE Tenths(text.confidence))) \o "%"
      ELSE "N/A">>

\* grade_submission_entry on a response of the grading service
grade_submission_entry ==
    /\ \E text \in Responses :
          call' = [fn |-> "grade_submission_entry",
                   res |-> _parse_grade_confidence(text),
                   ok |-> FALSE, rows |-> {}, text |-> text]
    /\ UNCHANGED <<wrapper, run, gate, games, subs, winners, prevWinners, mailbox, hist>>

NextFn ==
    \/ CallFindGame \/ CallGradeMatch \/ CallCollect \/ CallIsMarkedCorrect
    \/ grade_submission_entry

SpecFn == InitFn /\ [][NextFn]_vars

(***************************************************************************)
(* Submission Normalizer and ingestion (mail.py).  A message carries the   *)
(* sender that _parse_sender resolves, its subject, its plain-text body    *)
(* and its internalDate (None when it has neither internalDate nor Date).  *)
(***************************************************************************)
\* the timestamp string of lines 435-440
MessageTs(msg) == IF msg.internal # None THEN Strftime(msg.internal) ELSE ""

\* a timestamp text with a UTC offset: 17:00 UTC, 12:00 PM in New York
OffsetTs == "2025-01-06T17:00:00+00:00"

NoDt == [wall |-> None, tz |-> "none"]

\* dateutil's parser.parse on the timestamp texts of the model: the wall
\* clock time of the text and its zone, "naive" without one; wall clock 4 is
\* 01/06/2025 05:00 PM.  NoDt stands for the exception.
dtparser_parse(s) ==
    CASE s = OffsetTs -> [wall |-> 4, tz |-> "UTC"]
      [] s = "01/06/2025 05:00 PM" -> [wall |-> 4, tz |-> "naive"]
      [] _parse_dt_safe(s) # None -> [wall |-> _parse_dt_safe(s), tz |-> "naive"]
      [] OTHER -> NoDt

\* dt.strftime("%m/%d/%Y %I:%M %p"): the wall clock time of dt, whatever
\* its zone
StrftimeWall(dt) ==
    IF dt.wall = 4 THEN "01/06/2025 05:00 PM" ELSE Strftime(dt.wall)

\* dt.astimezone(ZoneInfo("America/New_York")) after a naive dt was given
\* the New York zone
AsNewYork(dt) ==
    IF dt.tz = "UTC" /\ dt.wall = 4 THEN [wall |-> 2, tz |-> "America/New_York"]
    ELSE [wall |-> dt.wall, tz |-> "America/New_York"]

_normalize_ts_str(s) ==
    IF s = "" THEN ""
    ELSE IF dtparser_parse(s) # NoDt THEN StrftimeWall(AsNewYork(dtparser_parse(s)))
    ELSE Strip(s)

\* the notice that the mailing list sends to its moderators about a held
\* message: the held text, the footer and the approve link
ModeratorNotice ==
    "a lighthouse\nThis message is being sent to you because you are a moderator of the group x\nApprove: https://groups.google.com/x"

\* str.splitlines()
Splitlines(s) ==
    CASE s = "" -> <<>>
      [] s = "a lighthouse\nSent from my iPhone" ->
            <<"a lighthouse", "Sent from my iPhone">>
      [] s = ModeratorNotice ->
            <<"a lighthouse",
              "This message is being sent to you because you are a moderator of the group x",
              "Approve: https://groups.google.com/x">>
      [] OTHER -> <<s>>

\* a line that matches one of cut_patterns
IsCutLine(ln) ==
    ln \in {"Sent from my iPhone",
            "This message is being sent to you because you are a moderator of the group x"}

\* "\n".join(out)
RECURSIVE JoinLines(_)
JoinLines(out) ==
    IF out = <<>> THEN ""
    ELSE IF Len(out) = 1 THEN out[1]
    ELSE out[1] \o "\n" \o JoinLines(Tail(out))

\* the lines before the first cut line, joined and stripped; no text of the
\* model is longer than 3000 characters
_clean_answer(body_text) ==
    IF body_text = "" THEN ""
    ELSE LET lines == Splitlines(body_text)
             cut == {k \in 1..Len(lines) : IsCutLine(Strip(lines[k]))}
             n == IF cut = {} THEN Len(lines) ELSE Min(cut) - 1
         IN  Strip(JoinLines(SubSeq(lines, 1, n)))

_extract_answer_from_subject(subject, game_name) ==
    CASE subject = "" -> ""
      [] OTHER -> Strip(subject)

_normalize_answer_for_key(s) ==
    CASE s = "" -> ""
      [] s = "a lighthouse" -> "a lighthouse"
      [] s = "A  Lighthouse" -> "a lighthouse"
      [] s = "Subject: Riddler\n\na lighthouse" -> "a lighthouse"
      [] s = "Subject: Riddler\n\nA  Lighthouse" -> "a lighthouse"
      [] s = "Subject: Riddler\n\nRiddler" -> "riddler"
      [] s = "Subject: Riddler" -> ""
      [] OTHER -> Lower(Strip(s))

_looks_like_digest_or_moderator(subject, from_email, body_text) ==
    \/ Lower(subject) \in {"riddler digest", "moderator's spam report"}
    \/ Lower(from_email) \in {"noreply@x.com", "no-reply@x.com"}
    \/ \E k \in 1..Len(Splitlines(body_text)) :
          Lower(Splitlines(body_text)[k]) = "approve: https://groups.google.com/x"

\* body_text after lines 446-462
BodyText(msg, game_name) ==
    LET body_text == _clean_answer(msg.body)
        subj_clean == Strip(msg.subject)
        guess == _extract_answer_from_subject(subj_clean, game_name)
    IN  IF body_text = "" /\ subj_clean # ""
        THEN IF guess # "" THEN "Subject: " \o subj_clean \o "\n\n" \o guess
             ELSE "Subject: " \o subj_clean
        ELSE IF subj_clean # "" /\ body_text # ""
        THEN "Subject: " \o subj_clean \o "\n\n" \o body_text
        ELSE body_text

MsgLink(msg_id) == "https://mail.google.com/mail/u/0/#all/" \o msg_id

\* the message is dropped by one of the continue statements of the loop
Skipped(msg, game_name) ==
    \/ msg.id = ""
    \/ _looks_like_digest_or_moderator(msg.subject, Strip(msg.email),
                                       _clean_answer(msg.body))
    \/ _normalize_answer_for_key(BodyText(msg, game_name)) = ""

MessageKey(msg, game_name) ==
    <<Lower(Strip(game_name)), Lower(Strip(msg.email)), MessageTs(msg),
      _normalize_answer_for_key(BodyText(msg, game_name))>>

NewRow(msg, game_name) ==
    [game |-> game_name, ts |-> MessageTs(msg), first |-> msg.first,
     last |-> msg.last, email |-> Strip(msg.email),
     answer |-> BodyText(msg, game_name), grade |-> "", conf |-> "",
     override |-> "", link |-> MsgLink(msg.id)]

\* the key _load_existing_keys derives from a stored row
RowKey(r) ==
    <<Lower(Strip(r.game)), Lower(Strip(r.email)), _normalize_ts_str(Strip(r.ts)),
      _normalize_answer_for_key(Strip(r.answer))>>

\* the test that guards keys.add(k)
RowHasKey(r) ==
    RowKey(r)[1] # "" /\ RowKey(r)[3] # "" /\ RowKey(r)[2] # "" /\ RowKey(r)[4] # ""

_load_existing_keys(rows) ==
    {RowKey(rows[i]) : i \in {j \in 1..Len(rows) : RowHasKey(rows[j])}}

\* key_to_row.get(key): the last row that holds the key, 0 for none
KeyToRow(rows, key) ==
    LET S == {i \in 1..Len(rows) : RowHasKey(rows[i]) /\ RowKey(rows[i]) = key}
    IN  IF S = {} THEN 0 ELSE Max(S)

\* curr_val of lines 477-481 for message k: the Link cell of the stored
\* row, "" when ws_sub.get raises; unread holds the messages for which it
\* raises
CurrVal(rows, row_idx, k, unread) ==
    IF k \in unread THEN "" ELSE rows[row_idx].link

\* the loop over the messages of a page, from message k on; acc holds
\* existing_keys, rows_to_append and link_updates
RECURSIVE FetchLoop(_, _, _, _, _, _)
FetchLoop(rows, msgs, game_name, k, acc, unread) ==
    IF k > Len(msgs) THEN acc
    ELSE LET msg == msgs[k]
             key == MessageKey(msg, game_name)
             row_idx == KeyToRow(rows, key)
             next ==
                IF Skipped(msg, game_name) THEN acc
                ELSE IF key \in acc.existing_keys
                THEN IF row_idx # 0 /\ CurrVal(rows, row_idx, k, unread) = ""
                     THEN [acc EXCEPT !.link_updates =
                                Append(@, <<row_idx, MsgLink(msg.id)>>)]
                     ELSE acc
                ELSE [acc EXCEPT !.rows_to_append = Append(@, NewRow(msg, game_name)),
                                 !.existing_keys = @ \cup {key}]
         IN  FetchLoop(rows, msgs, game_name, k + 1, next, unread)

\* ws_sub.batch_update of the link cells, in order
RECURSIVE ApplyLinks(_, _)
ApplyLinks(rows, link_updates) ==
    IF link_updates = <<>> THEN rows
    ELSE ApplyLinks([rows EXCEPT ![Head(link_updates)[1]].link = Head(link_updates)[2]],
                    Tail(link_updates))

\* the Submissions rows after fetch_emails_for_label has run over the
\* messages that carry the label of game_name
FetchResult(rows, msgs, game_name) ==
    LET acc == FetchLoop(rows, msgs, game_name, 1,
                         [existing_keys |-> _load_existing_keys(rows),
                          rows_to_append |-> <<>>, link_updates |-> <<>>], {})
    IN  ApplyLinks(rows \o acc.rows_to_append, acc.link_updates)

\* label_id of lines 374-376: os.getenv(label_id_env) or the default of the
\* game, with the unset variables of the environment as ""
label_id(environ, label_id_env, game_name) ==
    LET env_label_id == environ[label_id_env]
        default_label_id == IF Lower(game_name) = "riddler"
                            THEN environ.RIDDLE_LABEL_ID
                            ELSE environ.SCRAMBLER_LABEL_ID
    IN  IF env_label_id # "" THEN env_label_id ELSE default_label_id

\* the label_id_env main.py passes with each game_name
LabelIdEnv(game_name) ==
    CASE game_name = "Riddler" -> "RIDDLE_LABEL_ID"
      [] game_name = "Scrambler" -> "SCRAMBLER_LABEL_ID"
      [] game_name = "Puzzler" -> "PUZZLER_LABEL_ID"

\* an environment with a label id for every game, the id of a game's label
\* written as the game's name
Labelled ==
    [RIDDLE_LABEL_ID |-> "Riddler", SCRAMBLER_LABEL_ID |-> "Scrambler",
     PUZZLER_LABEL_ID |-> "Puzzler"]

MaxRuns == 2

\* fetch_emails_for_label(label_id_env, game_name) in the environment
\* call.environ; without a label id it returns at line 380
fetch_emails_for_label_in_environ(label_id_env, game_name) ==
    /\ call.fn = "fetch_emails_for_label"
    /\ hist.runs < MaxRuns
    /\ \E id \in {label_id(call.environ, label_id_env, game_name)} :
          subs' = IF id = "" THEN subs
                  ELSE FetchResult(subs, SelectSeq(mailbox, LAMBDA m : m.label = id),
                                   game_name)
    /\ hist' = [op |-> "fetch", runs |-> hist.runs + 1,
                first |-> IF hist.runs = 0 THEN subs' ELSE hist.first,
                base |-> hist.base]
    /\ UNCHANGED <<wrapper, run, gate, games, winners, prevWinners, mailbox, call>>

fetch_emails_for_label(game_name) ==
    /\ hist.runs < MaxRuns
    /\ subs' = FetchResult(subs,
                   SelectSeq(mailbox, LAMBDA m : m.label = label_id(Labelled, LabelIdEnv(game_name), game_name)), game_name)
    /\ hist' = [op |-> "fetch", runs |-> hist.runs + 1,
                first |-> IF hist.runs = 0 THEN subs' ELSE hist.first,
                base |-> hist.base]
    /\ UNCHANGED <<wrapper, run, gate, games, winners, prevWinners, mailbox, call>>

(***************************************************************************)
(* Repeated ingestion of one mailbox.                                      *)
(***************************************************************************)
MaxMsgs == 2

MsgIds == <<"m1", "m2", "m3", "m4">>

Messages ==
    {[label |-> "Riddler", email |-> e, first |-> "Amy", last |-> "K",
      internal |-> i, subject |-> s, body |-> b] :
        e \in {"a@x.com", "A@x.com", "", "noreply@x.com"},
        i \in {None, 1},
        s \in {"", "Riddler"},
        b \in {"", "a lighthouse", "A  Lighthouse", ModeratorNotice,
               "Approve: https://groups.google.com/x"}}

\* a Submissions row of an earlier version of the job, without a Link
LegacyRow ==
    [game |-> "Riddler", ts |-> Strftime(1), first |-> "Amy", last |-> "K",
     email |-> "a@x.com", answer |-> "a lighthouse", grade |-> "", conf |-> "",
     override |-> "", link |-> ""]

WithIds(ms) == [k \in 1..Len(ms) |->
                  [id |-> MsgIds[k], label |-> ms[k].label, email |-> ms[k].email,
                   first |-> ms[k].first, last |-> ms[k].last,
                   internal |-> ms[k].internal, subject |-> ms[k].subject,
                   body |-> ms[k].body]]

InitIngest ==
    /\ games = <<>>
    /\ subs \in {<<>>, <<LegacyRow>>}
    /\ winners = <<>>
    /\ prevWinners = {}
    /\ mailbox \in {WithIds(ms) : ms \in SeqsUpTo(Messages, MaxMsgs)}
    /\ hist = [op |-> "init", runs |-> 0, first |-> subs, base |-> Len(subs)]
    /\ call = [fn |-> "none"]
    /\ wrapper = Idle /\ run = Idle /\ gate = Idle

NextIngest == fetch_emails_for_label("Riddler")

SpecIngest == InitIngest /\ [][NextIngest]_vars

(***************************************************************************)
(* Ingestion with runs in which ws_sub.append_rows raises.                 *)
(***************************************************************************)
\* the accumulators at the end of the loop over the messages
FetchAcc(rows, msgs, game_name) ==
    FetchLoop(rows, msgs, game_name, 1,
              [existing_keys |-> _load_existing_keys(rows),
               rows_to_append |-> <<>>, link_updates |-> <<>>], {})

\* lines 503-524 when append_rows raises: the exception is logged, the link
\* cells are still written and the function returns
fetch_emails_for_label_append_failed(game_name) ==
    /\ hist.runs < MaxRuns
    /\ \E acc \in {FetchAcc(subs, SelectSeq(mailbox, LAMBDA m : m.label = label_id(Labelled, LabelIdEnv(game_name), game_name)),
                              game_name)} :
          /\ acc.rows_to_append # <<>>
          /\ subs' = ApplyLinks(subs, acc.link_updates)
    /\ hist' = [op |-> "fetch_append_failed", runs |-> hist.runs + 1,
                first |-> IF hist.runs = 0 THEN subs' ELSE hist.first,
                base |-> hist.base]
    /\ UNCHANGED <<wrapper, run, gate, games, winners, prevWinners, mailbox, call>>

NextFlush ==
    \/ fetch_emails_for_label("Riddler")
    \/ fetch_emails_for_label_append_failed("Riddler")

SpecFlush == InitIngest /\ [][NextFlush]_vars

(***************************************************************************)
(* Winner Selection Engine: the record of one window and the rewrite of    *)
(* the Winners sheet (winners.py, populate_winners_tab).                   *)
(***************************************************************************)
_load_previous_winner_emails(cells) ==
    {Lower(Strip(c)) : c \in cells} \ {"", "na", "declined"}

display_name(e) ==
    IF Strip(e.last) # "" THEN e.first \o " " \o Strip(e.last) \o "." ELSE e.first

\* sep.join(names)
RECURSIVE Join(_, _)
Join(names, sep) ==
    IF names = <<>> THEN ""
    ELSE IF Len(names) = 1 THEN names[1]
    ELSE names[1] \o sep \o Join(Tail(names), sep)

\* the first entry of each display name, in the order of the entries
DedupeByName(entries) ==
    Pick(entries, {i \in 1..Len(entries) :
                      \A j \in 1..(i - 1) : display_name(entries[j]) # display_name(entries[i])})

SortedByName(entries) ==
    StableSort(entries, [i \in 1..Len(entries) |-> StrOrd(Lower(display_name(entries[i])))])

SortedByTime(entries) ==
    StableSort(entries, [i \in 1..Len(entries) |-> entries[i].dt])

\* winner_emails_alpha: one address per lowercased address of ems, the first
\* seen, in the order of the lowercased addresses
EmailsAlpha(ems) ==
    LET firsts == Pick(ems, {i \in 1..Len(ems) :
                      /\ Strip(ems[i]) # ""
                      /\ \A j \in 1..(i - 1) : Lower(Strip(ems[j])) # Lower(Strip(ems[i]))})
    IN  StableSort([i \in 1..Len(firsts) |-> Strip(firsts[i])],
                   [i \in 1..Len(firsts) |-> StrOrd(Lower(Strip(firsts[i])))])

\* the key of a stored Winners row, and existing_map.get(key, ("", ""))
StoredKey(r) == <<Strip(r.start), Strip(r.end), Strip(r.game)>>

ExistingMapGet(existing_rows, key) ==
    LET S == {i \in 1..Len(existing_rows) :
                 /\ StoredKey(existing_rows[i]) # <<"", "", "">>
                 /\ StoredKey(existing_rows[i]) = key}
    IN  IF S = {} THEN <<"", "">>
        ELSE <<Strip(existing_rows[Max(S)].swag), Strip(existing_rows[Max(S)].swag_email)>>

PairsAll(entries) == {<<display_name(entries[i]), Strip(entries[i].email)>> : i \in 1..Len(entries)}

\* KeepsPrior with the exclusion test inverted
KeepsPriorInverted(prior, entries, previous_winner_emails) ==
    /\ prior[1] # "" /\ prior[2] # ""
    /\ prior \in PairsAll(entries)
    /\ Lower(Strip(prior[2])) \in previous_winner_emails

\* KeepsPrior without the test that the prior winner is still a correct entry
KeepsPriorStale(prior, entries, previous_winner_emails) ==
    /\ prior[1] # "" /\ prior[2] # ""
    /\ Lower(Strip(prior[2])) \notin previous_winner_emails

\* the prior swag winner is kept (lines 271-273)
KeepsPrior(prior, entries, previous_winner_emails) ==
    /\ prior[1] # "" /\ prior[2] # ""
    /\ prior \in PairsAll(entries)
    /\ Lower(Strip(prior[2])) \notin previous_winner_emails

\* Pool without the fallback to all correct entries
PoolNoFallback(entries, previous_winner_emails) ==
    Pick(entries, {i \in 1..Len(entries) :
                      Lower(Strip(entries[i].email)) \notin previous_winner_emails})

\* Pool with every correct entry, excluded or not
PoolEveryone(entries, previous_winner_emails) == entries

\* pool of lines 281-282
Pool(entries, previous_winner_emails) ==
    LET eligible == Pick(entries, {i \in 1..Len(entries) :
                            Lower(Strip(entries[i].email)) \notin previous_winner_emails})
    IN  IF eligible # <<>> THEN eligible ELSE entries

\* others_names of line 290, with every winner name kept
OthersNamesAll(winners_names_sorted, swag_name) == winners_names_sorted

\* others_names of line 290
OthersNames(winners_names_sorted, swag_name) ==
    SelectSeq(winners_names_sorted, LAMBDA n : n # swag_name)

\* str.endswith(".") on the display names of the model
EndsWithPeriod(s) == s \in {"Amy K.", "Ben L."}

\* full_text of lines 291-300: the sentence about the others ends with the
\* period of its last name when that name ends with one (the trailing ".."
\* is collapsed)
FullText(swag_name, others_names) ==
    IF swag_name = "" THEN ""
    ELSE "Congrats to " \o swag_name \o ", who will receive Spotlight PA swag."
         \o (IF others_names = <<>> THEN ""
             ELSE " Others who answered correctly: " \o Join(others_names, ", ")
                  \o (IF EndsWithPeriod(others_names[Len(others_names)])
                      THEN "" ELSE "."))

\* the values random.choice can return for the window: {0} when it is not called
Choices(g, submissions, previous_winner_emails, existing_rows) ==
    LET sorted == SortedByName(CorrectEntries(g, submissions))
        prior == ExistingMapGet(existing_rows,
                     <<_fmt_dt(g.start_dt), _fmt_dt(g.end_dt), g.game>>)
    IN  IF KeepsPrior(prior, sorted, previous_winner_emails)
           \/ Pool(sorted, previous_winner_emails) = <<>>
        THEN {0}
        ELSE 1..Len(Pool(sorted, previous_winner_emails))

\* row_out of one window, when random.choice returns element c of the pool
WinnerRecord(g, submissions, previous_winner_emails, existing_rows, c) ==
    LET correct_entries == CorrectEntries(g, submissions)
        correct_entries_sorted == SortedByName(correct_entries)
        winners_entries_sorted == DedupeByName(correct_entries_sorted)
        winners_names_sorted == [i \in 1..Len(winners_entries_sorted) |->
                                    display_name(winners_entries_sorted[i])]
        winners_emails_sorted == [i \in 1..Len(winners_entries_sorted) |->
                                    Strip(winners_entries_sorted[i].email)]
        by_time == DedupeByName(SortedByTime(correct_entries))
        winners_ordered == [i \in 1..Len(by_time) |-> display_name(by_time[i])]
        prior == ExistingMapGet(existing_rows,
                     <<_fmt_dt(g.start_dt), _fmt_dt(g.end_dt), g.game>>)
        keep == KeepsPrior(prior, correct_entries_sorted, previous_winner_emails)
        same == {i \in 1..Len(correct_entries_sorted) :
                    /\ display_name(correct_entries_sorted[i]) = prior[1]
                    /\ Strip(correct_entries_sorted[i].email) = prior[2]}
        pool == Pool(correct_entries_sorted, previous_winner_emails)
        swag_name == IF keep THEN prior[1]
                     ELSE IF pool # <<>> THEN display_name(pool[c]) ELSE ""
        swag_email == IF keep THEN prior[2]
                      ELSE IF pool # <<>> THEN Strip(pool[c].email) ELSE ""
        swag_link == IF keep
                     THEN IF same = {} THEN ""
                          ELSE Strip(correct_entries_sorted[Min(same)].link)
                     ELSE IF pool # <<>> THEN Strip(pool[c].link) ELSE ""
        others_names == OthersNames(winners_names_sorted, swag_name)
        full_text == FullText(swag_name, others_names)
    IN  [start |-> _fmt_dt(g.start_dt), end |-> _fmt_dt(g.end_dt), game |-> g.game,
         swag |-> swag_name, swag_email |-> swag_email, swag_link |-> swag_link,
         names |-> winners_names_sorted, ordered |-> winners_ordered,
         emails |-> EmailsAlpha(winners_emails_sorted), full_text |-> full_text]

\* rows_out, when random.choice returns c[k] for the k-th window
RowsOut(grows, srows, cells, existing_rows, c) ==
    LET gs == WinnerGames(grows)
    IN  [k \in 1..Len(gs) |->
            WinnerRecord(gs[k], WinnerSubmissions(srows),
                         _load_previous_winner_emails(cells), existing_rows, c[k])]

ChoiceFunctions(grows, srows, cells, existing_rows) ==
    LET gs == WinnerGames(grows)
    IN  {c \in [1..Len(gs) -> 0..Len(srows)] :
            \A k \in 1..Len(gs) :
                c[k] \in Choices(gs[k], WinnerSubmissions(srows),
                                 _load_previous_winner_emails(cells), existing_rows)}

\* a row of empty cells
BlankRow ==
    [start |-> "", end |-> "", game |-> "", swag |-> "", swag_email |-> "",
     swag_link |-> "", names |-> <<>>, ordered |-> <<>>, emails |-> <<>>,
     full_text |-> ""]

\* the clearing update of lines 195-203, with no cell cleared
NotCleared(existing_rows) == existing_rows

\* the clearing update of lines 195-203: every data row read is blanked
Cleared(existing_rows) == [i \in 1..Len(existing_rows) |-> BlankRow]

\* the final update of lines 320-327: rows_out is written from row 3 on
Written(rows, rows_out) ==
    [i \in 1..Max({Len(rows), Len(rows_out)}) |->
        IF i <= Len(rows_out) THEN rows_out[i] ELSE rows[i]]

\* the data rows of the sheet as get_all_values returns them: up to the
\* last row with a non-empty cell
DataRows(rows) ==
    LET S == {i \in 1..Len(rows) : rows[i] # BlankRow}
    IN  IF S = {} THEN <<>> ELSE SubSeq(rows, 1, Max(S))

\* a run that returns: the prior rows are cleared and rows_out is written
populate_winners_tab ==
    /\ \E c \in ChoiceFunctions(games, subs, prevWinners, winners) :
          winners' = DataRows(Written(Cleared(winners),
                                      RowsOut(games, subs, prevWinners, winners, c)))
    /\ hist' = Noted(hist, [op |-> "populate", prior |-> winners,
                             recorded |-> hist.recorded,
                             restart |-> hist.pending, pending |-> FALSE])
    /\ UNCHANGED <<wrapper, run, gate, games, subs, prevWinners, mailbox, call>>

\* a run that stops between the clearing update (lines 195-203) and the
\* final update (lines 320-327): the process is terminated, or the final
\* _safe_update raises and never_fail_execute calls the function again
populate_winners_tab_interrupted ==
    /\ winners' = <<>>
    /\ hist' = [op |-> "interrupted", prior |-> winners,
                recorded |-> IF hist.pending THEN hist.recorded ELSE winners,
                restart |-> FALSE, pending |-> TRUE]
    /\ UNCHANGED <<wrapper, run, gate, games, subs, prevWinners, mailbox, call>>

(***************************************************************************)
(* The people around the job: an editor overrides a grade as Incorrect,    *)
(* and a past winner is added to the Previous Winners sheet.               *)
(***************************************************************************)
SetOverride ==
    /\ \E i \in 1..Len(subs) :
          /\ subs[i].override = ""
          /\ subs' = [subs EXCEPT ![i].override = "Incorrect"]
    /\ hist' = [hist EXCEPT !.op = "override"]
    /\ UNCHANGED <<wrapper, run, gate, games, winners, prevWinners, mailbox, call>>

AddPreviousWinner(cells) ==
    /\ \E e \in cells \ prevWinners : prevWinners' = prevWinners \cup {e}
    /\ hist' = [hist EXCEPT !.op = "previous_winner"]
    /\ UNCHANGED <<wrapper, run, gate, games, subs, winners, mailbox, call>>

(***************************************************************************)
(* Repeated winner selection over graded submissions.                      *)
(***************************************************************************)
MaxEntries == 2

WinWindows == {GameRow("Riddler", 1, e, "AI: logic") : e \in Times}

WinSubRows ==
    {[game |-> "Riddler", ts |-> t, first |-> w[1], last |-> w[2], email |-> w[3],
      answer |-> "a lighthouse", grade |-> "Correct", conf |-> "90%",
      override |-> "", link |-> ""] :
        t \in {Strftime(1), Strftime(3)},
        w \in {<<"Amy", "K", "a@x.com">>, <<"Ben", "L", "B@x.com">>,
               <<"Amy", "K", "b@x.com">>}}

PreviousWinnerCells == {"A@x.com", "b@x.com"}

InitWin ==
    /\ games \in {gs \in SeqsUpTo(WinWindows, MaxGames) :
                    /\ Len(gs) >= 1
                    /\ \A i \in 1..Len(gs) :
                          _parse_dt_safe(gs[i].start) < _parse_dt_safe(gs[i].end)}
    /\ subs \in SeqsUpTo(WinSubRows, MaxEntries)
    /\ winners = <<>>
    /\ prevWinners = {}
    /\ mailbox = <<>>
    /\ hist = [op |-> "init", prior |-> <<>>, recorded |-> <<>>,
               restart |-> FALSE, pending |-> FALSE]
    /\ call = [fn |-> "none"]
    /\ wrapper = Idle /\ run = Idle /\ gate = Idle

NextWin ==
    \/ populate_winners_tab
    \/ SetOverride
    \/ AddPreviousWinner(PreviousWinnerCells)

SpecWin == InitWin /\ [][NextWin]_vars

(***************************************************************************)
(* Winner selection with runs that stop between the two updates.           *)
(***************************************************************************)
InitRestart ==
    /\ InitWin
    /\ Len(games) = 1

NextRestart ==
    \/ populate_winners_tab
    \/ populate_winners_tab_interrupted
    \/ SetOverride
    \/ AddPreviousWinner(PreviousWinnerCells)

SpecRestart == InitRestart /\ [][NextRestart]_vars

(***************************************************************************)
(* Winner selection over Games sheets with rows of several game types,     *)
(* with and without a game type and a start time, and over Submissions     *)
(* sheets with entries in and out of the window, with and without a first  *)
(* name and an email.  The editor withdraws a window by blanking its Game  *)
(* cell.                                                                   *)
(***************************************************************************)
RecordWindows ==
    {GameRow(g, s, 3, "AI: logic") :
        g \in {"Riddler", "RIDDLER", "Scrambler", ""}, s \in {None, 1, 2}}

RecordEntry(g, t, w, gr) ==
    [game |-> g, ts |-> t, first |-> w[1], last |-> w[2], email |-> w[3],
     answer |-> "a lighthouse", grade |-> gr, conf |-> "90%", override |-> "",
     link |-> ""]

RecordSubRows ==
    {RecordEntry("Riddler", t, w, "Correct") :
        t \in TsCell \cup {""},
        w \in {<<"Amy", "K", "a@x.com">>, <<"Amy", "K", "b@x.com">>,
               <<"Ben", "L", "B@x.com">>, <<"", "K", "a@x.com">>, <<"Ben", "L", "">>}}
    \cup {RecordEntry("Scrambler", Strftime(1), <<"Amy", "K", "a@x.com">>, "Correct"),
          RecordEntry("Riddler", Strftime(1), <<"Amy", "K", "a@x.com">>, "Incorrect")}

ClearGameCell ==
    /\ \E i \in 1..Len(games) :
          /\ games[i].game # ""
          /\ games' = [games EXCEPT ![i].game = ""]
    /\ hist' = [hist EXCEPT !.op = "edit_game"]
    /\ UNCHANGED <<wrapper, run, gate, subs, winners, prevWinners, mailbox, call>>

InitRecord ==
    /\ \/ /\ games \in {gs \in SeqsUpTo(RecordWindows, MaxGames) : Len(gs) >= 1}
          /\ subs \in {<<>>, <<RecordEntry("Riddler", Strftime(2),
                                            <<"Amy", "K", "a@x.com">>, "Correct")>>}
       \/ /\ games = <<GameRow("RIDDLER", 1, 2, "AI: logic")>>
          /\ subs \in SeqsUpTo(RecordSubRows, MaxEntries)
    /\ winners = <<>>
    /\ prevWinners = {}
    /\ mailbox = <<>>
    /\ hist = [op |-> "init", prior |-> <<>>, recorded |-> <<>>,
               restart |-> FALSE, pending |-> FALSE]
    /\ call = [fn |-> "none"]
    /\ wrapper = Idle /\ run = Idle /\ gate = Idle

NextRecord ==
    \/ populate_winners_tab
    \/ ClearGameCell

SpecRecord == InitRecord /\ [][NextRecord]_vars

(***************************************************************************)
(* Resilient call wrappers: never_fail_api_call                            *)
(* (helpers/improved_rate_limiting.py) and _NeverFailHTTPClient.request    *)
(* (helpers/sheet_ratelimit.py).  Waits are in seconds.  An outcome of the *)
(* wrapped call is a returned value or a raised exception; an exception is *)
(* a record of its class, the status code of its response, the text of     *)
(* str(e) and the Retry-After header of its response.                      *)
(***************************************************************************)
Returned(v) == [class |-> "return", status |-> 0, msg |-> v, retry_after |-> 0]

APIError(status, msg, ra) ==
    [class |-> "APIError", status |-> status, msg |-> msg, retry_after |-> ra]

Raised ==
    {APIError(s, m, 0) : s \in {429, 403, 503},
                         m \in {"quota exceeded per minute", "quota exceeded per day",
                                "rate limit exceeded", "internal error"}}
    \cup {APIError(503, "internal error", 45)}
    \cup {[class |-> "ConnectionError", status |-> 0, msg |-> "connection reset",
           retry_after |-> 0]}

Outcomes == Raised \cup {Returned(v) : v \in {"rows", "response"}}

\* "quota exceeded" in error_msg, "rate limit" in error_msg, "per minute" in
\* error_msg, "per day" in error_msg
HasQuotaExceeded(msg) ==
    msg \in {"quota exceeded per minute", "quota exceeded per day"}

HasRateLimit(msg) == msg = "rate limit exceeded"

HasPerMinute(msg) == msg = "quota exceeded per minute"

HasPerDay(msg) == msg = "quota exceeded per day"

\* the except clauses of never_fail_api_call: except APIError, except Exception
CaughtApiErrorOnly(e) == e.class = "APIError"

Caught(e) == e.class \in {"APIError", "ConnectionError"}

\* the branch of never_fail_api_call that handles an exception
ErrorClass(e) ==
    IF e.class = "APIError"
    THEN IF e.status = 429 \/ HasQuotaExceeded(e.msg) \/ HasRateLimit(e.msg)
         THEN "quota"
         ELSE IF e.status \in {500, 502, 503, 504} THEN "server" ELSE "api"
    ELSE "other"

\* wait_time of the quota branch without the cap of max_delay
ApiCallWaitUncapped(e, attempt) ==
    CASE ErrorClass(e) = "quota" ->
            IF HasPerMinute(e.msg) THEN 60 + attempt * 60
            ELSE IF HasPerDay(e.msg) THEN 1800
            ELSE 10 * 2 ^ Min({attempt - 1, 8})
      [] ErrorClass(e) = "server" -> Min({60, 5 * attempt})
      [] ErrorClass(e) = "api" -> Min({120, 10 * attempt})
      [] OTHER -> Min({60, 5 * attempt})

\* wait_time of never_fail_api_call, base_delay 10.0 and max_delay 1800
ApiCallWait(e, attempt) ==
    CASE ErrorClass(e) = "quota" ->
            IF HasPerMinute(e.msg) THEN Min({1800, 60 + attempt * 60})
            ELSE IF HasPerDay(e.msg) THEN 1800
            ELSE Min({1800, 10 * 2 ^ Min({attempt - 1, 8})})
      [] ErrorClass(e) = "server" -> Min({60, 5 * attempt})
      [] ErrorClass(e) = "api" -> Min({120, 10 * attempt})
      [] OTHER -> Min({60, 5 * attempt})

\* only the quota branch sleeps in a loop of chunks; the others call
\* time.sleep(wait_time) once
ApiCallChunked(e) == ErrorClass(e) = "quota"

_should_retry(e) == e.class = "APIError"

_retry_after_seconds(e) == IF e.class = "APIError" THEN e.retry_after ELSE 0

Jitter == {-1, 0, 1}

\* wait_time of _NeverFailHTTPClient.request with the default base 10.0,
\* jitter 2.0 and cap 1800; j is the value of random.uniform(-1, 1)
RequestWait(e, attempt, j) ==
    IF ~_should_retry(e) THEN Min({1800, 30 * attempt})
    ELSE IF HasQuotaExceeded(e.msg) \/ e.status = 429
         THEN IF HasPerMinute(e.msg) THEN Min({1800, 120 + attempt * 60})
              ELSE IF HasPerDay(e.msg) THEN 1800
              ELSE Min({1800, 60 + attempt * 30})
    ELSE Max({_retry_after_seconds(e),
              Min({1800, 10 * 2 ^ Min({attempt - 1, 10})}) + j})

RequestChunked(e) == _should_retry(e)

\* _min_interval() with SHEETS_MIN_INTERVAL unset
_min_interval == 6

\* the time.sleep of _pre_request_throttle when since seconds have passed
\* since _last_request_ts
ThrottleWait(since) == Max({0, _min_interval - since})

MaxAttempts == 8

\* what the handler of an outcome o does to the wrapper: return, raise, or wait
Handle(w, o, caught, wait_time, chunked) ==
    IF o.class = "return"
    THEN [w EXCEPT !.pc = "returned", !.attempt = @ + 1, !.last = o,
                   !.result = o.msg]
    ELSE IF ~caught
    THEN [w EXCEPT !.pc = "raised", !.attempt = @ + 1, !.last = o]
    ELSE [w EXCEPT !.pc = "wait", !.attempt = @ + 1, !.last = o,
                   !.seen = @ \cup {ErrorClass(o)},
                   !.wait_time = wait_time, !.total_wait = wait_time,
                   !.chunked = chunked, !.slept = 0, !.last_sleep = 0]

\* one iteration of the while True of never_fail_api_call: the call of func()
\* and the except clause it lands in, up to the first time.sleep
never_fail_api_call ==
    /\ wrapper.fn = "never_fail_api_call" /\ wrapper.pc = "call"
    /\ wrapper.attempt < MaxAttempts
    /\ \E o \in Outcomes :
          wrapper' = Handle(wrapper, o, Caught(o),
                            ApiCallWait(o, wrapper.attempt + 1), ApiCallChunked(o))
    /\ UNCHANGED <<games, subs, winners, prevWinners, mailbox, hist, call, run, gate>>

\* one iteration of the while True of _NeverFailHTTPClient.request:
\* _pre_request_throttle(), super().request() and the except clause
request ==
    /\ wrapper.fn = "request" /\ wrapper.pc = "call"
    /\ wrapper.attempt < MaxAttempts
    /\ \E o \in Outcomes, j \in Jitter :
          wrapper' = [Handle(wrapper, o, TRUE,
                             RequestWait(o, wrapper.attempt + 1, j), RequestChunked(o))
                        EXCEPT !.throttled = ThrottleWait(wrapper.since)]
    /\ UNCHANGED <<games, subs, winners, prevWinners, mailbox, hist, call, run, gate>>

\* Sleep without total_wait -= chunk
SleepStalled ==
    /\ wrapper.pc = "wait"
    /\ LET chunk == IF wrapper.chunked THEN Min({30, wrapper.total_wait})
                    ELSE wrapper.total_wait
       IN  wrapper' = [wrapper EXCEPT !.last_sleep = chunk]
    /\ UNCHANGED <<games, subs, winners, prevWinners, mailbox, hist, call, run, gate>>

\* one time.sleep of the wait: a chunk of at most 30 seconds in the chunked
\* loops, the whole wait_time otherwise
Sleep ==
    /\ wrapper.pc = "wait"
    /\ LET chunk == IF wrapper.chunked THEN Min({30, wrapper.total_wait})
                    ELSE wrapper.total_wait
           left == wrapper.total_wait - chunk
       IN  wrapper' = [wrapper EXCEPT !.last_sleep = chunk, !.slept = @ + chunk,
                                      !.total_wait = left,
                                      !.since = wrapper.slept + chunk,
                                      !.pc = IF left > 0 THEN "wait" ELSE "call"]
    /\ UNCHANGED <<games, subs, winners, prevWinners, mailbox, hist, call, run, gate>>

InitRetry ==
    /\ games = <<>> /\ subs = <<>> /\ winners = <<>> /\ prevWinners = {}
    /\ mailbox = <<>> /\ hist = [op |-> "init"] /\ call = [fn |-> "none"]
    /\ run = Idle /\ gate = Idle
    /\ \E f \in {"never_fail_api_call", "request"}, s \in {0, 4, _min_interval} :
          wrapper = [fn |-> f, pc |-> "call", attempt |-> 0, last |-> Returned(""),
                     seen |-> {}, result |-> "", wait_time |-> 0, total_wait |-> 0,
                     chunked |-> FALSE, slept |-> 0, last_sleep |-> 0,
                     since |-> s, throttled |-> 0]

NextRetry == never_fail_api_call \/ request \/ Sleep

SpecRetry == InitRetry /\ [][NextRetry]_vars

(***************************************************************************)
(* One run of main.py.  The phases run in the order of the                 *)
(* never_fail_execute calls of __main__ and format_and_populate_all.  A    *)
(* phase function is taken at the grain of its control outcome: it         *)
(* returns (also by the early return it takes on a missing column), it     *)
(* raises, or the user interrupts it.  What the phases do to the sheets is *)
(* the subject of the specifications above.                                *)
(***************************************************************************)
PhaseOrderWinnersFirst ==
    <<"Riddler Email Fetch", "Scrambler Email Fetch", "Puzzler Email Fetch",
      "First Name Formatting", "Last Initial Formatting", "Timestamp Reformatting",
      "AI Grading Prompt Generation", "Winner Population", "Submission Grading">>

PhaseOrder ==
    <<"Riddler Email Fetch", "Scrambler Email Fetch", "Puzzler Email Fetch",
      "First Name Formatting", "Last Initial Formatting", "Timestamp Reformatting",
      "AI Grading Prompt Generation", "Submission Grading", "Winner Population">>

Fetches == {"Riddler Email Fetch", "Scrambler Email Fetch", "Puzzler Email Fetch"}

Formattings ==
    {"First Name Formatting", "Last Initial Formatting", "Timestamp Reformatting"}

\* how the spreadsheet calls of a phase function are guarded: "direct" is a
\* bare gspread call (sheet.worksheet, ws.get_all_values, ws.update_cell,
\* ws_sub.update), the others are the module's wrappers with tries=7
PhaseSites(op) ==
    CASE op \in Fetches -> {"direct", "_safe_get_all_values_mail"}
      [] op \in Formattings -> {"direct", "_safe_update_range"}
      [] op = "Winner Population" -> {"direct", "_safe_get_all_values"}
      [] OTHER -> {"direct"}

\* winners._is_retryable, and the two retrying branches of the wrappers of
\* mail.py and formatting.py
_is_retryable(e) ==
    /\ e.class = "APIError"
    /\ \/ e.status \in {429, 500, 502, 503, 504}
       \/ HasQuotaExceeded(e.msg) \/ HasRateLimit(e.msg)

\* the responses of the backend to one call: n failures e, then the value
Faults(e, n) == [i \in 1..(n + 1) |-> IF i <= n THEN e ELSE Returned("rows")]

\* for attempt in range(tries): try: return ws.<call>() except ...: if
\* attempt < tries - 1 and retryable: continue; raise
RECURSIVE SafeTry(_, _, _)
SafeTry(responses, attempt, tries) ==
    IF attempt >= tries \/ attempt >= Len(responses) THEN "return"
    ELSE IF responses[attempt + 1].class = "return" THEN "return"
    ELSE IF attempt < tries - 1 /\ _is_retryable(responses[attempt + 1])
         THEN SafeTry(responses, attempt + 1, tries)
    ELSE "raise"

\* what a spreadsheet call of a phase does when the backend fails it n times
\* with e.  never_fail tells whether the client of the call sends its
\* requests through _NeverFailHTTPClient.request, which absorbs them all.
CallSite(site, never_fail, e, n) ==
    IF never_fail THEN "return"
    ELSE IF site = "direct" THEN "raise"
    ELSE SafeTry(Faults(e, n), 0, 7)

OpenAIFailed ==
    [class |-> "RuntimeError", status |-> 0, msg |-> "openai call failed",
     retry_after |-> 0]

\* gspread.exceptions.WorksheetNotFound of sheet.worksheet(title), whose
\* message is the title
WorksheetNotFound ==
    [class |-> "WorksheetNotFound", status |-> 0, msg |-> "Winners",
     retry_after |-> 0]

MaxFaults == 7

\* what can happen to one attempt of a phase
Incidents(op) ==
    {[kind |-> "none", site |-> "", e |-> Returned(""), n |-> 0],
     [kind |-> "interrupt", site |-> "", e |-> Returned(""), n |-> 0]}
    \cup {[kind |-> "sheet", site |-> s, e |-> e, n |-> n] :
             s \in PhaseSites(op), e \in Raised, n \in 1..MaxFaults}
    \cup (IF op \in {"AI Grading Prompt Generation", "Submission Grading"}
          THEN {[kind |-> "openai", site |-> "", e |-> OpenAIFailed, n |-> 1]}
          ELSE {})
    \cup (IF op # "AI Grading Prompt Generation"
          THEN {[kind |-> "fatal", site |-> "", e |-> WorksheetNotFound, n |-> 1]}
          ELSE {})

PhaseOutcome(op, inc, never_fail) ==
    CASE inc.kind = "none" -> "returned"
      [] inc.kind = "interrupt" -> "interrupted"
      [] inc.kind = "openai" -> "raised"
      [] inc.kind = "fatal" -> "raised"
      [] OTHER -> IF CallSite(inc.site, never_fail, inc.e, inc.n) = "return"
                  THEN "returned" ELSE "raised"

\* the wait never_fail_execute computes from str(e).lower() and the attempt
ExecuteWait(e, attempt) ==
    IF HasQuotaExceeded(e.msg) \/ e.status = 429
    THEN IF attempt <= 5 THEN 300 * attempt ELSE 1800
    ELSE IF e.msg = "openai call failed" THEN Min({600, 60 * attempt})
    ELSE IF e.status \in {500, 502, 503, 504} THEN Min({180, 30 * attempt})
    ELSE Min({300, 60 * attempt})

\* the Submissions header after a phase returned: _ensure_submission_headers
\* adds the columns that are missing, when the label id is configured
SubsColsAfter(op, r) ==
    IF op \in Fetches /\ r.label THEN "ok" ELSE r.subs_cols

\* the phase function logs the missing column and returns: the Games columns
\* are required by build_games_index, populate_ai_grading_prompts and
\* populate_winners_tab, the Submissions columns by _reformat_entire_column,
\* grade_submissions_for_sheet and populate_winners_tab
MissingColumn(op, r) ==
    \/ r.games_cols = "missing"
          /\ op \in {"AI Grading Prompt Generation", "Submission Grading",
                     "Winner Population"}
    \/ r.subs_cols = "missing"
          /\ op \in Formattings \cup {"Submission Grading", "Winner Population"}

MaxExecAttempts == 3

\* one attempt of never_fail_execute(operation_name, operation_func): the
\* call of the phase function and the except clause it lands in, up to the
\* loop of the wait; the last phase's return is followed by the end of the
\* script
never_fail_execute ==
    /\ run # Idle
    /\ run.status = "running" /\ run.total_wait = 0
    /\ LET op == PhaseOrder[run.pc]
       IN  \E inc \in Incidents(op) :
              LET out == PhaseOutcome(op, inc, run.never_fail)
                  base == [run EXCEPT !.started = @ \cup {op},
                                      !.last = [op |-> op, outcome |-> out,
                                                early |-> out = "returned"
                                                          /\ MissingColumn(op, run),
                                                cause |-> IF out # "raised"
                                                          THEN "none"
                                                          ELSE IF inc.kind = "fatal"
                                                          THEN "fatal"
                                                          ELSE ErrorClass(inc.e)]]
              IN  /\ out = "raised" => run.attempt < MaxExecAttempts
                  /\ run' =
                       CASE out = "returned" ->
                              [base EXCEPT !.returned = @ \cup {op},
                                           !.attempt = 0, !.wait_time = 0,
                                           !.subs_cols = SubsColsAfter(op, run),
                                           !.pc = IF run.pc = Len(PhaseOrder)
                                                  THEN run.pc ELSE run.pc + 1,
                                           !.status = IF run.pc = Len(PhaseOrder)
                                                      THEN "exited" ELSE "running",
                                           !.exit_code = 0]
                         [] out = "interrupted" ->
                              [base EXCEPT !.status = "exited", !.exit_code = 1]
                         [] OTHER ->
                              [base EXCEPT !.attempt = @ + 1,
                                           !.wait_time =
                                               ExecuteWait(inc.e, run.attempt + 1),
                                           !.total_wait =
                                               ExecuteWait(inc.e, run.attempt + 1)]
    /\ UNCHANGED <<games, subs, winners, prevWinners, mailbox, hist, call,
                   wrapper, gate>>

\* one iteration of the loop of the wait of never_fail_execute: a
\* time.sleep of at most 60 seconds
ExecuteSleep ==
    /\ run # Idle
    /\ run.status = "running" /\ run.total_wait > 0
    /\ LET chunk == Min({60, run.total_wait})
       IN  run' = [run EXCEPT !.total_wait = @ - chunk]
    /\ UNCHANGED <<games, subs, winners, prevWinners, mailbox, hist, call,
                   wrapper, gate>>

InitMain ==
    /\ games = <<>> /\ subs = <<>> /\ winners = <<>> /\ prevWinners = {}
    /\ mailbox = <<>> /\ hist = [op |-> "init"] /\ call = [fn |-> "none"]
    /\ wrapper = Idle /\ gate = Idle
    /\ \E nf \in BOOLEAN, lb \in BOOLEAN, gc \in {"ok", "missing"},
          sc \in {"ok", "missing"} :
          run = [pc |-> 1, status |-> "running", exit_code |-> 0, attempt |-> 0,
                 wait_time |-> 0, total_wait |-> 0, started |-> {}, returned |-> {},
                 last |-> [op |-> "", outcome |-> "none", early |-> FALSE,
                           cause |-> "none"],
                 never_fail |-> nf, label |-> lb, games_cols |-> gc,
                 subs_cols |-> sc]

NextMain == never_fail_execute \/ ExecuteSleep

SpecMain == InitMain /\ [][NextMain]_vars

(***************************************************************************)
(* The throttle gates: the wrapper of global_rate_limit                    *)
(* (helpers/improved_rate_limiting.py) with its module globals             *)
(* _LAST_API_CALL, _API_CALL_COUNT and _CALL_WINDOW_START under            *)
(* _GLOBAL_LOCK, and _pre_request_throttle (helpers/sheet_ratelimit.py)    *)
(* with _last_request_ts under _lock.  Threads call gated functions; the   *)
(* clock is time.time() in seconds, observed at the instants at which a    *)
(* thread is scheduled; a thread in time.sleep(w) wakes at an instant at   *)
(* which the clock has advanced by at least w.                             *)
(***************************************************************************)
Threads == {1, 2}

NoThread == 0

\* acquiring a threading.Lock: possible when no thread holds it
CanAcquireUnlocked(lock) == TRUE

CanAcquire(lock) == lock = NoThread

\* a thread's view of the gate between two of its steps
AtRest == [pc |-> "idle", fn |-> "", now |-> 0, wake |-> 0]

MaxCalls == 3

\* the instants at which threads are scheduled: the start of the process,
\* instants one second and one minimum interval later, and instants around
\* the end of the first minute of the count window
Instants == {60, 61, 66, 115, 119, 120, 121, 125, 126}

\* time passes to the next instant
Tick ==
    /\ \E i \in Instants : i > gate.clock
    /\ gate' = [gate EXCEPT !.clock = Min({i \in Instants : i > gate.clock})]
    /\ UNCHANGED <<games, subs, winners, prevWinners, mailbox, hist, call, wrapper, run>>

\* the interval test of lines 38-41 with the now read at line 21: the pc and
\* the wake-up time of the thread
IntervalStep(g, now) ==
    IF now - g._LAST_API_CALL < g.min_interval
    THEN [pc |-> "sleep_interval", fn |-> "global_rate_limit", now |-> now,
          wake |-> g.clock + (g.min_interval - (now - g._LAST_API_CALL))]
    ELSE [pc |-> "admit", fn |-> "global_rate_limit", now |-> now, wake |-> 0]

\* wrapper of global_rate_limit, lines 20-33: the lock is taken, now is read,
\* the count is reset when the window is a minute old, and the thread goes to
\* sleep when the count is at the limit
global_rate_limit(t) ==
    /\ gate.thread[t].pc = "idle"
    /\ Len(gate.admitted) + Len(gate.requests) < MaxCalls
    /\ CanAcquire(gate._GLOBAL_LOCK)
    /\ LET now == gate.clock
           reset == now - gate._CALL_WINDOW_START >= 60
           g1 == [gate EXCEPT !._GLOBAL_LOCK = t,
                              !._API_CALL_COUNT = IF reset THEN 0 ELSE @,
                              !._CALL_WINDOW_START = IF reset THEN now ELSE @]
           wait_time == 60 - (now - g1._CALL_WINDOW_START) + 5
       IN  gate' =
             IF g1._API_CALL_COUNT >= g1.calls_per_minute /\ wait_time > 0
             THEN [g1 EXCEPT !.thread[t] =
                       [pc |-> "sleep_limit", fn |-> "global_rate_limit",
                        now |-> now, wake |-> g1.clock + wait_time]]
             ELSE [g1 EXCEPT !.thread[t] = IntervalStep(g1, now)]
    /\ UNCHANGED <<games, subs, winners, prevWinners, mailbox, hist, call, wrapper, run>>

\* lines 34-41: after the sleep of the limit the count and the window are
\* reset, then the interval is tested with the now of line 21
WakeLimit(t) ==
    /\ gate.thread[t].pc = "sleep_limit"
    /\ gate.clock >= gate.thread[t].wake
    /\ LET g1 == [gate EXCEPT !._API_CALL_COUNT = 0,
                              !._CALL_WINDOW_START = gate.clock]
       IN  gate' = [g1 EXCEPT !.thread[t] = IntervalStep(g1, gate.thread[t].now)]
    /\ UNCHANGED <<games, subs, winners, prevWinners, mailbox, hist, call, wrapper, run>>

\* the end of time.sleep(wait) of line 41 or of sheet_ratelimit.py line 24
WakeInterval(t) ==
    /\ gate.thread[t].pc = "sleep_interval"
    /\ gate.clock >= gate.thread[t].wake
    /\ gate' = [gate EXCEPT !.thread[t].pc = "admit"]
    /\ UNCHANGED <<games, subs, winners, prevWinners, mailbox, hist, call, wrapper, run>>

\* lines 43-46: the admission is stamped and counted, the lock is released
\* and the gated function is called
Admit(t) ==
    /\ gate.thread[t].pc = "admit" /\ gate.thread[t].fn = "global_rate_limit"
    /\ gate' = [gate EXCEPT !._LAST_API_CALL = gate.clock,
                            !._API_CALL_COUNT = @ + 1,
                            !._GLOBAL_LOCK = NoThread,
                            !.admitted = Append(@, gate.clock),
                            !.thread[t] = AtRest]
    /\ UNCHANGED <<games, subs, winners, prevWinners, mailbox, hist, call, wrapper, run>>

\* _pre_request_throttle, lines 20-24
_pre_request_throttle(t) ==
    /\ gate.thread[t].pc = "idle"
    /\ Len(gate.admitted) + Len(gate.requests) < MaxCalls
    /\ CanAcquire(gate._lock)
    /\ LET now == gate.clock
           wait == _min_interval - (now - gate._last_request_ts)
       IN  gate' = [gate EXCEPT
                       !._lock = t,
                       !.thread[t] =
                           IF wait > 0
                           THEN [pc |-> "sleep_interval", fn |-> "_pre_request_throttle",
                                 now |-> now, wake |-> gate.clock + wait]
                           ELSE [pc |-> "admit", fn |-> "_pre_request_throttle",
                                 now |-> now, wake |-> 0]]
    /\ UNCHANGED <<games, subs, winners, prevWinners, mailbox, hist, call, wrapper, run>>

\* _pre_request_throttle, line 25 and the release of the lock
Stamp(t) ==
    /\ gate.thread[t].pc = "admit" /\ gate.thread[t].fn = "_pre_request_throttle"
    /\ gate' = [gate EXCEPT !._last_request_ts = gate.clock,
                            !._lock = NoThread,
                            !.requests = Append(@, gate.clock),
                            !.thread[t] = AtRest]
    /\ UNCHANGED <<games, subs, winners, prevWinners, mailbox, hist, call, wrapper, run>>

\* the arguments of the decorator
GateParams == {<<1, 2>>, <<5, 2>>, <<6, 12>>}

InitGate ==
    /\ games = <<>> /\ subs = <<>> /\ winners = <<>> /\ prevWinners = {}
    /\ mailbox = <<>> /\ hist = [op |-> "init"] /\ call = [fn |-> "none"]
    /\ wrapper = Idle /\ run = Idle
    /\ \E p \in GateParams :
          gate = [clock |-> 60, min_interval |-> p[1], calls_per_minute |-> p[2],
                  _GLOBAL_LOCK |-> NoThread, _LAST_API_CALL |-> 0,
                  _API_CALL_COUNT |-> 0, _CALL_WINDOW_START |-> 0,
                  _lock |-> NoThread, _last_request_ts |-> 0,
                  admitted |-> <<>>, requests |-> <<>>,
                  thread |-> [t \in Threads |-> AtRest]]

NextGate ==
    \/ Tick
    \/ \E t \in Threads : global_rate_limit(t)
    \/ \E t \in Threads : WakeLimit(t)
    \/ \E t \in Threads : WakeInterval(t)
    \/ \E t \in Threads : Admit(t)
    \/ \E t \in Threads : _pre_request_throttle(t)
    \/ \E t \in Threads : Stamp(t)

SpecGate == InitGate /\ [][NextGate]_vars

(***************************************************************************)
(* Sender resolution (mail.py, _pick_personal_sender).  A header is the    *)
(* pair that email.utils.parseaddr makes of it: the display name and the   *)
(* address, both empty for an absent header.                               *)
(***************************************************************************)
Addr(name, email) == [name |-> name, email |-> email]

list_aliases == {"riddler@spotlightpa.org", "scrambler@spotlightpa.org"}

\* " via " in from_name_l
ContainsVia(s) == s \in {"amy via riddler"}

\* Python's a or b on strings
StrOr(a, b) == IF a # "" THEN a ELSE b

\* lines 188-196
use_reply_to(from_header, reply_to_header) ==
    LET from_email_l == Lower(Strip(from_header.email))
        rt_email_l == Lower(Strip(reply_to_header.email))
        from_name_l == Lower(Strip(from_header.name))
    IN  /\ rt_email_l # ""
        /\ \/ from_email_l \in list_aliases
           \/ ContainsVia(from_name_l)
           \/ rt_email_l \notin list_aliases

\* the identity of lines 199-200
ReplyToIdentity(from_header, reply_to_header) ==
    <<StrOr(reply_to_header.name, reply_to_header.email),
      StrOr(reply_to_header.email, from_header.email)>>

\* the identity of line 201
FromIdentity(from_header, reply_to_header) ==
    <<StrOr(from_header.name, from_header.email),
      StrOr(from_header.email, reply_to_header.email)>>

_pick_personal_sender(from_header, reply_to_header) ==
    IF use_reply_to(from_header, reply_to_header)
    THEN ReplyToIdentity(from_header, reply_to_header)
    ELSE FromIdentity(from_header, reply_to_header)

FromHeaders ==
    {Addr(n, e) : n \in {"", "Amy K", "Amy via Riddler", "Amy Via Riddler"},
                  e \in {"", "amy@x.com", "riddler@spotlightpa.org",
                         "Riddler@SpotlightPA.org"}}

ReplyToHeaders ==
    {Addr(n, e) : n \in {"", "Ben L"},
                  e \in {"", "amy@x.com", "ben@x.com", "scrambler@spotlightpa.org"}}

\* the headers of a message that fetch_emails_for_label has read
InitSender ==
    /\ games = <<>> /\ subs = <<>> /\ winners = <<>> /\ prevWinners = {}
    /\ mailbox = <<>> /\ hist = [op |-> "init"]
    /\ wrapper = Idle /\ run = Idle /\ gate = Idle
    /\ \E f \in FromHeaders, r \in ReplyToHeaders :
          call = [fn |-> "none", from_header |-> f, reply_to_header |-> r,
                  res |-> <<"", "">>]

CallPickPersonalSender ==
    /\ call.fn = "none"
    /\ call' = [call EXCEPT !.fn = "_pick_personal_sender",
                            !.res = _pick_personal_sender(call.from_header,
                                                          call.reply_to_header)]
    /\ UNCHANGED <<wrapper, run, gate, games, subs, winners, prevWinners, mailbox, hist>>

NextSender == CallPickPersonalSender

SpecSender == InitSender /\ [][NextSender]_vars

(***************************************************************************)
(* The delays of never_fail_api_call: the wait_time the except clause of   *)
(* APIError computes for an error at attempt n, and the one it computed    *)
(* for the same error at attempt n - 1.                                    *)
(***************************************************************************)
MaxDelayAttempts == 31

DelayErrors == {e \in Raised : e.class = "APIError"}
                  \cup {APIError(400, "internal error", 0)}

InitDelay ==
    /\ games = <<>> /\ subs = <<>> /\ winners = <<>> /\ prevWinners = {}
    /\ mailbox = <<>> /\ hist = [op |-> "init"]
    /\ wrapper = Idle /\ run = Idle /\ gate = Idle
    /\ \E e \in DelayErrors, n \in 1..MaxDelayAttempts :
          call = [fn |-> "none", e |-> e, attempt |-> n, wait_time |-> 0,
                  before |-> 0]

CallApiCallWait ==
    /\ call.fn = "none"
    /\ call' = [call EXCEPT !.fn = "never_fail_api_call",
                            !.wait_time = ApiCallWait(call.e, call.attempt),
                            !.before = IF call.attempt = 1 THEN 0
                                       ELSE ApiCallWait(call.e, call.attempt - 1)]
    /\ UNCHANGED <<wrapper, run, gate, games, subs, winners, prevWinners, mailbox, hist>>

NextDelay == CallApiCallWait

SpecDelay == InitDelay /\ [][NextDelay]_vars

(***************************************************************************)
(* Grading passes and winner selection over one workbook whose Games       *)
(* windows stay as they are: windows of two game types, some overlapping,  *)
(* one without a rubric; ungraded submissions inside and outside the       *)
(* windows, one of them marked Correct by an editor.                       *)
(***************************************************************************)
PipeGames ==
    {<<GameRow("Riddler", 1, 2, "AI: logic")>>,
     <<GameRow("Riddler", 1, 2, "AI: logic"), GameRow("Riddler", 2, 3, "AI: logic")>>,
     <<GameRow("Riddler", 2, 3, "AI: logic"), GameRow("Riddler", 1, 2, "AI: logic")>>,
     <<GameRow("Riddler", 1, 1, ""), GameRow("Scrambler", 1, 3, "AI: logic")>>}

PipeEntry(g, t, w) ==
    [game |-> g, ts |-> t, first |-> w[1], last |-> w[2], email |-> w[3],
     answer |-> "a lighthouse", grade |-> "", conf |-> "", override |-> "",
     link |-> ""]

PipeSubRows ==
    {PipeEntry("Riddler", t, <<"Amy", "K", "a@x.com">>) : t \in TsCell}
    \cup {PipeEntry("Riddler", Strftime(2), <<"Ben", "L", "b@x.com">>)}
    \cup {[PipeEntry("Riddler", Strftime(3), <<"Amy", "K", "a@x.com">>)
               EXCEPT !.override = "Correct"]}

InitPipeline ==
    /\ games \in PipeGames
    /\ subs \in SeqsUpTo(PipeSubRows, MaxEntries)
    /\ winners = <<>>
    /\ prevWinners = {}
    /\ mailbox = <<>>
    /\ hist = [op |-> "init", preSubs |-> subs, gradedBefore |-> {},
               calls |-> {}, graded |-> {}, todo |-> {}, failed |-> 0,
               rubric_calls |-> {}, rubric_writes |-> {}, authoredBefore |-> {},
               authored |-> {}, rubric_runs |-> 0,
               prior |-> <<>>, recorded |-> <<>>, restart |-> FALSE,
               pending |-> FALSE]
    /\ call = [fn |-> "none"]
    /\ wrapper = Idle /\ run = Idle /\ gate = Idle

NextPipeline ==
    \/ grade_submissions_for_sheet
    \/ populate_winners_tab

SpecPipeline == InitPipeline /\ [][NextPipeline]_vars

(***************************************************************************)
(* Completion of the retry loops.  The backend stops failing: the wrapped  *)
(* call of never_fail_api_call fails at most MaxAttempts - 1 times in a    *)
(* row, the phase function of never_fail_execute at most MaxExecAttempts   *)
(* times.  Each loop is the only thread of its process and runs on as long *)
(* as it has a next step, hence the weak fairness of every step.           *)
(***************************************************************************)
\* an iteration of never_fail_api_call whose call returns when the backend
\* has stopped failing
never_fail_api_call_settling ==
    /\ wrapper # Idle
    /\ never_fail_api_call
    /\ wrapper.attempt = MaxAttempts - 1 => wrapper'.pc = "returned"

InitLive ==
    \/ InitRetry /\ wrapper.fn = "never_fail_api_call"
    \/ InitMain

NextLive ==
    \/ never_fail_api_call_settling
    \/ Sleep
    \/ never_fail_execute
    \/ ExecuteSleep

SpecLive ==
    /\ InitLive /\ [][NextLive]_vars
    /\ WF_vars(never_fail_api_call_settling) /\ WF_vars(Sleep)
    /\ WF_vars(never_fail_execute) /\ WF_vars(ExecuteSleep)

(***************************************************************************)
(* Repeated ingestion of one mailbox with reads of the Link cell that      *)
(* raise.                                                                  *)
(***************************************************************************)
\* a run of fetch_emails_for_label in which ws_sub.get raises for the
\* messages of unread (lines 477-481)
fetch_emails_for_label_read_failed(game_name) ==
    /\ hist.runs < MaxRuns
    /\ \E msgs \in {SelectSeq(mailbox, LAMBDA m : m.label = label_id(Labelled, LabelIdEnv(game_name), game_name))} :
       \E unread \in SUBSET (1..Len(msgs)) \ {{}} :
       \E acc \in {FetchLoop(subs, msgs, game_name, 1,
                             [existing_keys |-> _load_existing_keys(subs),
                              rows_to_append |-> <<>>, link_updates |-> <<>>],
                             unread)} :
          subs' = ApplyLinks(subs \o acc.rows_to_append, acc.link_updates)
    /\ hist' = [op |-> "fetch_read_failed", runs |-> hist.runs + 1,
                first |-> IF hist.runs = 0 THEN subs' ELSE hist.first,
                base |-> hist.base]
    /\ UNCHANGED <<wrapper, run, gate, games, winners, prevWinners, mailbox, call>>

NextBackfill ==
    \/ fetch_emails_for_label("Riddler")
    \/ fetch_emails_for_label_read_failed("Riddler")

SpecBackfill == InitIngest /\ [][NextBackfill]_vars

(***************************************************************************)
(* The three email fetches of main.py in environments with and without     *)
(* the label id of each game, over a mailbox of messages under two labels. *)
(***************************************************************************)
LabelIds == {"Label_1", "Label_2"}

Environs ==
    [{"RIDDLE_LABEL_ID", "SCRAMBLER_LABEL_ID", "PUZZLER_LABEL_ID"} -> LabelIds \cup {""}]

LabelMessages ==
    {[label |-> l, email |-> "a@x.com", first |-> "Amy", last |-> "K",
      internal |-> 1, subject |-> "", body |-> "a lighthouse"] : l \in LabelIds}

InitLabels ==
    /\ games = <<>>
    /\ subs = <<>>
    /\ winners = <<>>
    /\ prevWinners = {}
    /\ mailbox \in {WithIds(ms) : ms \in SeqsUpTo(LabelMessages, MaxMsgs)}
    /\ hist = [op |-> "init", runs |-> 0, first |-> subs, base |-> Len(subs)]
    /\ call \in {[fn |-> "fetch_emails_for_label", environ |-> e] : e \in Environs}
    /\ wrapper = Idle /\ run = Idle /\ gate = Idle

NextLabels ==
    \/ fetch_emails_for_label_in_environ("RIDDLE_LABEL_ID", "Riddler")
    \/ fetch_emails_for_label_in_environ("SCRAMBLER_LABEL_ID", "Scrambler")
    \/ fetch_emails_for_label_in_environ("PUZZLER_LABEL_ID", "Puzzler")

SpecLabels == InitLabels /\ [][NextLabels]_vars

(***************************************************************************)
(* Reformatting phases (formatting.py): one read of the Submissions sheet, *)
(* one column transformed and written back over rows 3 and below.          *)
(***************************************************************************)
\* normalize_first_name on the first names of the model
normalize_first_name(name) ==
    CASE name = "amy" -> "Amy"
      [] name = "AMY" -> "Amy"
      [] name = "amy@x.com" -> "Amy"
      [] OTHER -> Strip(name)

\* normalize_last_initial on the last names of the model
normalize_last_initial(value) ==
    CASE value = "k" -> "K"
      [] value = "Kim" -> "K"
      [] value = "K." -> "K"
      [] value = "1" -> ""
      [] OTHER -> Strip(value)

\* "(Autopopulated)" in raw_ts or "(Required)" in raw_ts
Instructional(raw_ts) == raw_ts \in {"(Autopopulated)", "Timestamp (Required)"}

_format_ts_cell(raw_ts) ==
    IF raw_ts = "" THEN ""
    ELSE IF Instructional(raw_ts) THEN raw_ts
    ELSE IF dtparser_parse(raw_ts) # NoDt THEN StrftimeWall(dtparser_parse(raw_ts))
    ELSE raw_ts

\* the cell new_val that _reformat_entire_column writes for a row
Transformed(row, header_name) ==
    CASE header_name = "First Name" ->
            [row EXCEPT !.first = normalize_first_name(Strip(row.first))]
      [] header_name = "Last Name Initial" ->
            [row EXCEPT !.last = normalize_last_initial(Strip(row.last))]
      [] header_name = "Timestamp" ->
            [row EXCEPT !.ts = _format_ts_cell(Strip(row.ts))]

\* the data rows after _safe_update_range wrote out_col over the column
_reformat_entire_column(rows, header_name) ==
    [i \in 1..Len(rows) |-> Transformed(rows[i], header_name)]

\* reformat_first_names: _reformat_entire_column(ws, "First Name", normalize_first_name)
reformat_first_names ==
    /\ subs' = _reformat_entire_column(subs, "First Name")
    /\ hist' = [op |-> "First Name", pre |-> subs]
    /\ UNCHANGED <<wrapper, run, gate, games, winners, prevWinners, mailbox, call>>

\* reformat_last_initials: _reformat_entire_column(ws, "Last Name Initial", normalize_last_initial)
reformat_last_initials ==
    /\ subs' = _reformat_entire_column(subs, "Last Name Initial")
    /\ hist' = [op |-> "Last Name Initial", pre |-> subs]
    /\ UNCHANGED <<wrapper, run, gate, games, winners, prevWinners, mailbox, call>>

\* reformat_submission_timestamps: _reformat_entire_column(ws, "Timestamp", _format_ts_cell)
reformat_submission_timestamps ==
    /\ subs' = _reformat_entire_column(subs, "Timestamp")
    /\ hist' = [op |-> "Timestamp", pre |-> subs]
    /\ UNCHANGED <<wrapper, run, gate, games, winners, prevWinners, mailbox, call>>

FormatRows ==
    {[game |-> "Riddler", ts |-> t, first |-> f, last |-> l, email |-> "a@x.com",
      answer |-> "a lighthouse", grade |-> "", conf |-> "", override |-> "",
      link |-> ""] :
        t \in {Strftime(1), "01/06/2025 9:00 AM", OffsetTs, "(Autopopulated)", "",
               "soon"},
        f \in {"Amy", "amy@x.com"}, l \in {"K", "Kim", "1"}}

InitFormat ==
    /\ games = <<>>
    /\ subs \in SeqsUpTo(FormatRows, MaxEntries)
    /\ winners = <<>>
    /\ prevWinners = {}
    /\ mailbox = <<>>
    /\ hist = [op |-> "init", pre |-> subs]
    /\ call = [fn |-> "none"]
    /\ wrapper = Idle /\ run = Idle /\ gate = Idle

NextFormat ==
    \/ reformat_first_names
    \/ reformat_last_initials
    \/ reformat_submission_timestamps

SpecFormat == InitFormat /\ [][NextFormat]_vars

(***************************************************************************)
(* Properties.                                                             *)
(***************************************************************************)

\* C1: write-once grading, values.  After a grading pass, every Submissions
\* row whose AI Grade cell was non-empty when the pass started holds the same
\* AI Grade and AI Confidence as before the pass.
C1_GradedRowsKeepValues ==
    hist.op = "grade" =>
        \A i \in 1..Len(hist.preSubs) :
            Strip(hist.preSubs[i].grade) # "" =>
                /\ subs[i].grade = hist.preSubs[i].grade
                /\ subs[i].conf = hist.preSubs[i].conf

\* C2: write-once grading, service calls.  A grading pass never invokes the
\* grading service for a row whose AI Grade was set by an earlier completed
\* pass.
C2_NoServiceCallForGradedRow ==
    hist.calls \cap hist.gradedBefore = {}

\* The game type a Game cell names, case and surrounding blanks aside.
GameTypeOf(s) ==
    CASE s \in {"Riddler", "RIDDLER", " Riddler ", "riddler"} -> "riddler"
      [] s \in {"Scrambler", "scrambler"} -> "scrambler"
      [] OTHER -> "unknown"

\* The time of the one Submissions row of SpecFn, None if it has none.
SubTime == _parse_dt_safe(Strip(subs[1].ts))

\* Games data row n is a window of the submission's game type that contains
\* the submission's time.
Holds(n) ==
    /\ GameTypeOf(games[n].game) = GameTypeOf(subs[1].game)
    /\ SubTime # None
    /\ _parse_dt_safe(games[n].start) <= SubTime
    /\ SubTime <= _parse_dt_safe(games[n].end)

C7_EarlierStartWins ==
    call.fn \in {"find_game_for_submission", "grade_match"} =>
        \A n \in 1..Len(games) :
            Holds(n) =>
                /\ call.res.row_number # 0
                /\ call.res.start_dt <= _parse_dt_safe(games[n].start)

\* C7 witness: two overlapping windows, the later-starting one first in the
\* sheet, a submission in the overlap, and the grading pass matched the
\* second row.
C7_Witness ==
    /\ call.fn = "grade_match"
    /\ Len(games) = 2
    /\ Holds(1) /\ Holds(2)
    /\ _parse_dt_safe(games[1].start) > _parse_dt_safe(games[2].start)
    /\ call.res.row_number = 4

\* C8: override precedence.  is_marked_correct is true exactly when Override
\* is 'correct' (case-insensitive, trimmed), or Override is blank and AI
\* Grade is 'correct'.
C8_OverridePrecedence ==
    call.fn = "is_marked_correct" =>
        call.ok =
            ( \/ subs[1].override \in {"Correct", "correct", "CORRECT", " Correct "}
              \/ /\ subs[1].override \in {"", "  "}
                 /\ subs[1].grade \in {"Correct", "correct", "CORRECT", " Correct "} )

\* C8 witness: Override = Incorrect with AI Grade = Correct is not correct.
C8_Witness ==
    /\ call.fn = "is_marked_correct"
    /\ subs[1].override = "Incorrect"
    /\ subs[1].grade = "Correct"
    /\ ~call.ok

\* C3: idempotent ingestion.  Running fetch_emails_for_label again on the
\* same messages leaves the Submissions rows as the first run left them, and
\* no two stored rows with a Link carry the same dedup key.
C3_IdempotentIngestion ==
    /\ hist.runs >= 2 => subs = hist.first
    /\ \A i, j \in 1..Len(subs) :
          (i < j /\ subs[i].link # "" /\ subs[j].link # "") =>
              RowKey(subs[i]) # RowKey(subs[j])

\* The window of the k-th row of the Winners sheet after a run.
WindowOf(k) == WinnerGames(games)[k]

\* The Submissions rows that are eligible correct entries of window g: same
\* game type, a time within the window, effectively correct, with a first
\* name and an email.
EligibleFor(g) ==
    {i \in 1..Len(subs) :
        /\ GameTypeOf(subs[i].game) = GameTypeOf(g.game)
        /\ _parse_dt_safe(subs[i].ts) # None
        /\ g.start_dt <= _parse_dt_safe(subs[i].ts)
        /\ _parse_dt_safe(subs[i].ts) <= g.end_dt
        /\ \/ subs[i].override \in {"Correct", "correct", "CORRECT", " Correct "}
           \/ /\ subs[i].override \in {"", "  "}
              /\ subs[i].grade \in {"Correct", "correct", "CORRECT", " Correct "}
        /\ subs[i].first # "" /\ subs[i].email # ""}

Excluded == _load_previous_winner_emails(prevWinners)

\* Row j of the stored rows is a record for the key of the new row k whose
\* swag winner is still an eligible correct entry of the window and is not
\* excluded.
StillValid(stored, j, k) ==
    /\ StoredKey(stored[j]) = <<winners[k].start, winners[k].end, winners[k].game>>
    /\ \E i \in EligibleFor(WindowOf(k)) :
          /\ display_name(subs[i]) = stored[j].swag
          /\ subs[i].email = stored[j].swag_email
    /\ Lower(stored[j].swag_email) \notin Excluded

SameSwag(r, k) ==
    winners[k].swag = r.swag /\ winners[k].swag_email = r.swag_email

LastOfKey(stored, j) ==
    \A m \in (j + 1)..Len(stored) : StoredKey(stored[m]) # StoredKey(stored[j])

\* C4 as stated: swag-winner stability.  If the Winners sheet holds a record
\* for the key of a window whose swag winner is still eligible and not
\* excluded, the run records the same swag name and email for the window.
C4_AnyRecordOfKeyKept ==
    hist.op = "populate" =>
        \A k \in 1..Len(winners), j \in 1..Len(hist.prior) :
            StillValid(hist.prior, j, k) => SameSwag(hist.prior[j], k)

\* C4 as amended: the same of the last record the Winners sheet holds for
\* the key.
C4_LastRecordOfKeyKept ==
    hist.op = "populate" =>
        \A k \in 1..Len(winners), j \in 1..Len(hist.prior) :
            (StillValid(hist.prior, j, k) /\ LastOfKey(hist.prior, j)) =>
                SameSwag(hist.prior[j], k)

\* C4 witness: a run kept the recorded swag winner of a window that has
\* another eligible entry outside the exclusion set.
C4_Witness ==
    /\ hist.op = "populate"
    /\ \E k \in 1..Len(winners), j \in 1..Len(hist.prior) :
          /\ StillValid(hist.prior, j, k) /\ LastOfKey(hist.prior, j)
          /\ SameSwag(hist.prior[j], k)
          /\ \E i \in EligibleFor(WindowOf(k)) :
                /\ display_name(subs[i]) # winners[k].swag
                /\ Lower(subs[i].email) \notin Excluded

\* C5: restart safety.  When a run stopped between the clearing update and
\* the final update, the next completed run records, for every window whose
\* swag winner recorded before the interrupted run is still eligible and not
\* excluded, that same swag winner.
C5_RestartKeepsRecordedWinner ==
    (hist.op = "populate" /\ hist.restart) =>
        \A k \in 1..Len(winners), j \in 1..Len(hist.recorded) :
            (StillValid(hist.recorded, j, k) /\ LastOfKey(hist.recorded, j)) =>
                SameSwag(hist.recorded[j], k)

\* C9: exclusion fallback.  Every window with an eligible correct entry gets
\* a non-empty swag winner, who is one of its eligible correct entries, also
\* when the email of every such entry is excluded.
C9_ExclusionFallback ==
    hist.op = "populate" =>
        \A k \in 1..Len(winners) :
            EligibleFor(WindowOf(k)) # {} =>
                /\ winners[k].swag # ""
                /\ \E i \in EligibleFor(WindowOf(k)) :
                      /\ display_name(subs[i]) = winners[k].swag
                      /\ subs[i].email = winners[k].swag_email

\* C9 witness: a window all of whose eligible entries are excluded has a
\* swag winner.
C9_Witness ==
    /\ hist.op = "populate"
    /\ \E k \in 1..Len(winners) :
          /\ EligibleFor(WindowOf(k)) # {}
          /\ \A i \in EligibleFor(WindowOf(k)) : Lower(subs[i].email) \in Excluded
          /\ winners[k].swag # ""

\* C10: in every row a run writes, a non-empty Winners list contains the
\* non-empty Swag Winner, and with an empty list Swag Winner and Swag Winner
\* Email are empty.
C10_SwagAmongWinners ==
    hist.op = "populate" =>
        \A k \in 1..Len(winners) :
            IF winners[k].names # <<>>
            THEN /\ winners[k].swag # ""
                 /\ \E n \in 1..Len(winners[k].names) : winners[k].names[n] = winners[k].swag
            ELSE winners[k].swag = "" /\ winners[k].swag_email = ""

\* C10 witness: a row with two winner names whose swag winner is the second.
C10_Witness ==
    /\ hist.op = "populate"
    /\ \E k \in 1..Len(winners) :
          /\ Len(winners[k].names) = 2
          /\ winners[k].swag = winners[k].names[2]

\* C11: the resilient call wrappers never propagate failure.  Whatever
\* sequence of exceptions the wrapped call raises (APIError with status 429,
\* 5xx or another status, or a non-API exception), never_fail_api_call and
\* _NeverFailHTTPClient.request do not raise; they return only on an attempt
\* where the wrapped call returned, and they return its value.
C11_WrappersNeverRaise ==
    /\ wrapper.pc # "raised"
    /\ wrapper.pc = "returned" =>
          wrapper.last.class = "return" /\ wrapper.result = wrapper.last.msg

\* a wrapper that returned the value of its fifth attempt after exceptions of
\* all four classes
C11_Witness ==
    /\ wrapper.pc = "returned"
    /\ wrapper.attempt = 5
    /\ wrapper.seen = {"quota", "server", "api", "other"}
    /\ wrapper.result = "rows"

\* C18: chunked waits of never_fail_api_call.  For every error class and
\* every attempt number no single time.sleep lasts more than 30 seconds, and
\* the sleeps of one wait sum to the computed wait time.
C18_SleepsAtMostThirty ==
    wrapper.fn = "never_fail_api_call" =>
        /\ wrapper.last_sleep <= 30
        /\ (wrapper.pc = "call" /\ wrapper.attempt > 0) =>
              wrapper.slept = wrapper.wait_time

\* C12: every spreadsheet call of the phases goes through the infinite
\* quota-retry policy.  Whatever number of consecutive quota-exceeded
\* responses the backend gives to one call, the phase function does not raise
\* because of them.
C12_NoPhaseRaisesOnQuota ==
    ~(run.last.outcome = "raised" /\ run.last.cause = "quota")

\* C13: stage ordering within one run.  No attempt of the grading phase
\* starts before all three e-mail fetches have returned, and no attempt of
\* the winner phase starts before the grading phase has returned, whatever
\* the phases' failures and the retries of never_fail_execute.
C13_StageOrder ==
    /\ "Submission Grading" \in run.started => Fetches \subseteq run.returned
    /\ "Winner Population" \in run.started =>
          "Submission Grading" \in run.returned

\* the winner phase has started, after every earlier phase returned, and has
\* failed twice
C13_Witness ==
    /\ "Winner Population" \in run.started
    /\ run.last.op = "Winner Population" /\ run.last.outcome = "raised"
    /\ run.attempt = 2

\* C17: fatal configuration exit code.  A run that ends while a required
\* column is missing from the Games or the Submissions sheet ends with a
\* non-zero exit code.
C17_MissingColumnExitsNonZero ==
    (run.status = "exited"
        /\ (run.games_cols = "missing" \/ run.subs_cols = "missing"))
    => run.exit_code # 0

\* C15: verdict parsing.  If the Correctness field or the Confidence field of
\* the grading-service response fails to parse, the verdict is
\* (Uncertain, N/A); Correct or Incorrect is produced only when both parse.
C15_BothFieldsOrUncertain ==
    call.fn = "grade_submission_entry" =>
        /\ (~GradeParses(call.text) \/ ~ConfidenceParses(call.text)) =>
              call.res = <<"Uncertain", "N/A">>
        /\ call.res[1] \in {"Correct", "Incorrect"} =>
              GradeParses(call.text) /\ ConfidenceParses(call.text)

\* C14: grading failure isolation.  When a grading-service call made for one
\* submission fails (the verdict call, or the rubric synthesis for its
\* window), that submission is recorded as Uncertain / N/A, every other
\* ungraded submission with a window is still processed, and the verdicts
\* computed in the pass are persisted.
C14_FailureIsolated ==
    hist.op \in {"grade", "grade_failed"} =>
        \A i \in hist.todo :
            /\ Strip(subs[i].grade) # ""
            /\ i = hist.failed => subs[i].grade = "Uncertain" /\ subs[i].conf = "N/A"

\* C16: rubric write-once.  Once a run has written a machine-authored rubric
\* into the AI Grading Prompt cell of a Games row (empty before, or holding
\* human guidance), a later run of populate_ai_grading_prompts or
\* grade_submissions_for_sheet makes no rubric call for that row and does not
\* rewrite its cell.
C16_RubricWrittenOnce ==
    hist.op \in {"grade", "grade_failed", "prompts", "prompts_failed"} =>
        (hist.rubric_calls \cup hist.rubric_writes) \cap hist.authoredBefore = {}

\* the thread holds the lock of the gate it is in
HoldsLock(t) ==
    CASE gate.thread[t].fn = "global_rate_limit" -> gate._GLOBAL_LOCK = t
      [] gate.thread[t].fn = "_pre_request_throttle" -> gate._lock = t
      [] OTHER -> TRUE

\* C19: minimum inter-call interval under concurrency.  In every interleaving
\* of the threads, two successive admissions by a gate (global_rate_limit,
\* _pre_request_throttle) are at least the configured minimum interval apart,
\* and a thread that reads or writes the shared counters holds the gate's
\* lock.
C19_MinIntervalUnderLock ==
    /\ \A i \in 2..Len(gate.admitted) :
          gate.admitted[i] - gate.admitted[i - 1] >= gate.min_interval
    /\ \A i \in 2..Len(gate.requests) :
          gate.requests[i] - gate.requests[i - 1] >= _min_interval
    /\ \A t \in Threads : HoldsLock(t)

\* global_rate_limit with a minimum interval of 6 seconds has admitted two
\* calls exactly 6 seconds apart, and a thread is asleep in
\* _pre_request_throttle, holding its lock, for the rest of its interval
C19_Witness ==
    /\ Len(gate.admitted) = 2
    /\ gate.admitted[2] - gate.admitted[1] = gate.min_interval
    /\ gate.min_interval = 6
    /\ \E t \in Threads : gate.thread[t].fn = "_pre_request_throttle"
                          /\ gate.thread[t].pc = "sleep_interval"

\* C20: rolling per-minute cap.  For every min_interval and calls_per_minute
\* of the decorator, every interval of 60 seconds holds at most
\* calls_per_minute admissions.
C20_RollingMinuteCap ==
    \A i \in 1..Len(gate.admitted) :
        Cardinality({j \in 1..Len(gate.admitted) :
                        /\ gate.admitted[j] >= gate.admitted[i]
                        /\ gate.admitted[j] < gate.admitted[i] + 60})
            <= gate.calls_per_minute


\* a Reply-To address is present and the From address is a list alias or the
\* From display name contains " via "
use_reply_to_alias_or_via(from_header, reply_to_header) ==
    LET from_email_l == Lower(Strip(from_header.email))
        rt_email_l == Lower(Strip(reply_to_header.email))
        from_name_l == Lower(Strip(from_header.name))
    IN  /\ rt_email_l # ""
        /\ \/ from_email_l \in list_aliases
           \/ ContainsVia(from_name_l)

\* C21: sender resolution.  _pick_personal_sender returns the Reply-To
\* identity exactly when a Reply-To address is present and the From address
\* is a list alias or the From display name contains " via "; in every other
\* case it returns the From identity.
C21_ReplyToOnlyForAliasOrVia ==
    call.fn = "_pick_personal_sender" =>
        call.res = IF use_reply_to_alias_or_via(call.from_header, call.reply_to_header)
                   THEN ReplyToIdentity(call.from_header, call.reply_to_header)
                   ELSE FromIdentity(call.from_header, call.reply_to_header)


\* C22: digest and moderator filtering.  No row appended by
\* fetch_emails_for_label carries a message whose subject is a digest or spam
\* report subject, whose resolved sender is a no-reply alias, or whose body
\* holds the approve link of the group moderation on any of its lines.
C22_NoModeratorNoticeStored ==
    \A i \in 1..Len(subs), k \in 1..Len(mailbox) :
        (i > hist.base /\ subs[i].link = MsgLink(mailbox[k].id)) =>
            ~_looks_like_digest_or_moderator(mailbox[k].subject,
                                             Strip(mailbox[k].email),
                                             mailbox[k].body)


\* C28: ingestion flush.  When fetch_emails_for_label has returned, every
\* message of the label that passed the filters has a row with its dedup key
\* in the Submissions sheet, also when append_rows raised during the run.
C28_FetchedMessagesStored ==
    hist.op \in {"fetch", "fetch_append_failed"} =>
        \A k \in 1..Len(mailbox) :
            ~Skipped(mailbox[k], "Riddler") =>
                \E i \in 1..Len(subs) :
                    RowKey(subs[i]) = MessageKey(mailbox[k], "Riddler")


\* The Games rows that have a game type and a parseable start and end.
WindowRows ==
    {i \in 1..Len(games) :
        /\ games[i].game # ""
        /\ _parse_dt_safe(games[i].start) # None
        /\ _parse_dt_safe(games[i].end) # None}

\* Winners row r is the record of Games row i.
RecordOf(r, i) ==
    /\ r.game = games[i].game
    /\ _parse_dt_safe(r.start) = _parse_dt_safe(games[i].start)
    /\ _parse_dt_safe(r.end) = _parse_dt_safe(games[i].end)

\* Winners row a does not come after row b in the order of (game type
\* lowercased, start time).
InWindowOrder(a, b) ==
    \/ StrOrd(Lower(a.game)) < StrOrd(Lower(b.game))
    \/ /\ StrOrd(Lower(a.game)) = StrOrd(Lower(b.game))
       /\ _parse_dt_safe(a.start) <= _parse_dt_safe(b.start)

\* C23: winners persistence.  After a completed run the data rows of the
\* Winners sheet are one record per Games row with a game type and a
\* parseable start and end, windows without correct entries included, in the
\* order of (game type lowercased, start time), and no row of the previous
\* contents remains.
C23_WinnersRowsAreTheRecords ==
    hist.op = "populate" =>
        /\ Len(winners) = Cardinality(WindowRows)
        /\ \E f \in [1..Len(winners) -> WindowRows] :
              /\ \A k, l \in 1..Len(winners) : k # l => f[k] # f[l]
              /\ \A k \in 1..Len(winners) : RecordOf(winners[k], f[k])
        /\ \A k, l \in 1..Len(winners) :
              k < l => InWindowOrder(winners[k], winners[l])

\* C23 witness: a run over a Winners sheet of two records wrote the one
\* record of the window that is left, a window without correct entries.
C23_Witness ==
    /\ hist.op = "populate"
    /\ Len(hist.prior) = 2
    /\ Len(winners) = 1
    /\ winners[1].names = <<>>

\* C27: winner eligibility.  A display name is in the Winners list of a
\* window exactly when a submission of the same game type, with a timestamp
\* within the window, effectively correct, with a first name and an email,
\* has that display name; and no name is listed twice.
C27_WinnersAreTheEligible ==
    hist.op = "populate" =>
        \A k \in 1..Len(winners) :
            /\ {winners[k].names[n] : n \in 1..Len(winners[k].names)}
                  = {display_name(subs[i]) : i \in EligibleFor(WindowOf(k))}
            /\ \A m, n \in 1..Len(winners[k].names) :
                  m # n => winners[k].names[m] # winners[k].names[n]

\* C27 witness: a window lists one of two correct entries in the window,
\* the other one having no email.
C27_Witness ==
    /\ hist.op = "populate"
    /\ \E k \in 1..Len(winners) :
          /\ Len(winners[k].names) = 1
          /\ \E i \in EligibleFor(WindowOf(k)), j \in 1..Len(subs) :
                /\ subs[j].email = "" /\ subs[j].first # ""
                /\ subs[j].game = subs[i].game /\ subs[j].ts = subs[i].ts
                /\ subs[j].grade = "Correct"

\* The Full Text of a row with swag winner swag and the other names others.
SummaryText(swag, others) ==
    "Congrats to " \o swag \o ", who will receive Spotlight PA swag."
    \o (IF others = <<>> THEN ""
        ELSE " Others who answered correctly: " \o Join(others, ", ")
             \o (IF EndsWithPeriod(others[Len(others)]) THEN "" ELSE "."))

\* C25: summary text.  Full Text is empty exactly when the window has no
\* eligible correct entry; otherwise it congratulates the recorded swag
\* winner, and the part about the others is there exactly when the Winners
\* list holds another name, and lists every winner name but the swag
\* winner's, once.
C25_SummaryText ==
    hist.op = "populate" =>
        \A k \in 1..Len(winners) :
            IF EligibleFor(WindowOf(k)) = {}
            THEN winners[k].full_text = ""
            ELSE /\ winners[k].full_text # ""
                 /\ winners[k].full_text =
                        SummaryText(winners[k].swag,
                                    SelectSeq(winners[k].names,
                                              LAMBDA n : n # winners[k].swag))

\* C25 witness: a row with a swag winner and another winner name.
C25_Witness ==
    /\ hist.op = "populate"
    /\ \E k \in 1..Len(winners) :
          /\ Len(winners[k].names) = 2
          /\ winners[k].swag = winners[k].names[1]
          /\ winners[k].full_text # ""


\* C24: Winner Emails completeness.  For every window the Winner Emails
\* list holds, compared without regard to case, exactly the emails of the
\* eligible correct entries of the window, each once, in alphabetical order,
\* the emails of entries that share a display name included.
C24_WinnerEmailsComplete ==
    hist.op = "populate" =>
        \A k \in 1..Len(winners) :
            /\ {Lower(winners[k].emails[n]) : n \in 1..Len(winners[k].emails)}
                  = {Lower(subs[i].email) : i \in EligibleFor(WindowOf(k))}
            /\ \A m, n \in 1..Len(winners[k].emails) :
                  m < n => StrOrd(Lower(winners[k].emails[m]))
                              < StrOrd(Lower(winners[k].emails[n]))

\* C26: idempotent recomputation.  A completed run that follows a completed
\* run, with the Games, Submissions and Previous Winners sheets unchanged in
\* between, leaves the Winners rows as they were, also for a window all of
\* whose eligible entries are excluded.
C26_IdempotentRecomputation ==
    [][(hist.op = "populate" /\ hist'.op = "populate") => winners' = winners]_vars


\* C29: fatal errors are not retried.  When a phase function raises a fatal
\* configuration error, a missing worksheet for one, never_fail_execute does
\* not call the phase again: the run ends with a non-zero exit code.
C29_FatalErrorEndsRun ==
    (run.last.outcome = "raised" /\ run.last.cause = "fatal") =>
        (run.status = "exited" /\ run.exit_code # 0)


\* The error is one the quota branch of never_fail_api_call takes: status
\* 429, or a message about an exceeded quota or a rate limit.
IsQuotaError(e) ==
    e.status = 429 \/ HasQuotaExceeded(e.msg) \/ HasRateLimit(e.msg)

\* C30 as stated: retry delay bounds.  For every attempt n >= 1 the wait
\* after a quota error is not less than the wait at attempt n - 1 and never
\* above 1800 seconds, for every sub-type; the wait after a 5xx error is
\* never above 60 seconds; the wait after any other API error is never above
\* 120 seconds.
C30_DelayBoundsByStatus ==
    call.fn = "never_fail_api_call" =>
        /\ IsQuotaError(call.e) =>
              (call.before <= call.wait_time /\ call.wait_time <= 1800)
        /\ call.e.status \in {500, 502, 503, 504} => call.wait_time <= 60
        /\ (~IsQuotaError(call.e) /\ call.e.status \notin {500, 502, 503, 504}) =>
              call.wait_time <= 120

\* C30 as amended: the bound of 60 seconds is that of a 5xx error that is
\* not a quota error, an error with a 5xx status and a quota or rate-limit
\* message being waited for as a quota error.
C30_DelayBoundsByBranch ==
    call.fn = "never_fail_api_call" =>
        /\ IsQuotaError(call.e) =>
              (call.before <= call.wait_time /\ call.wait_time <= 1800)
        /\ (~IsQuotaError(call.e) /\ call.e.status \in {500, 502, 503, 504}) =>
              call.wait_time <= 60
        /\ (~IsQuotaError(call.e) /\ call.e.status \notin {500, 502, 503, 504}) =>
              call.wait_time <= 120

\* C30 witness: the wait of a per-minute quota error at the cap of 1800
\* seconds, which it had reached at the attempt before.
C30_Witness ==
    /\ call.fn = "never_fail_api_call"
    /\ HasPerMinute(call.e.msg)
    /\ call.wait_time = 1800 /\ call.before = 1800


\* Games row n has the game type of Submissions row i and a start and an
\* end around the row's timestamp.  Row i lies in no window of its game type
\* when this is so of no Games row with a game type and a parseable start
\* and end.
Within(i, n) ==
    /\ GameTypeOf(games[n].game) = GameTypeOf(subs[i].game)
    /\ _parse_dt_safe(subs[i].ts) # None
    /\ _parse_dt_safe(games[n].start) <= _parse_dt_safe(subs[i].ts)
    /\ _parse_dt_safe(subs[i].ts) <= _parse_dt_safe(games[n].end)

NoWindow(i) == \A n \in WindowRows : ~Within(i, n)

\* C31: no window match.  Over any sequence of grading passes and winner
\* runs with the Games windows unchanged, a submission whose timestamp lies
\* in no window of its game type is not sent to the grading service, is not
\* the row for which a rubric is generated or written, has an empty AI
\* Grade, and its display name is in a Winners list only if another
\* submission, eligible for that window, has the same display name.
C31_NoWindowMatch ==
    \A i \in 1..Len(subs) :
        NoWindow(i) =>
            /\ i \notin hist.calls \cup hist.todo
            /\ \A n \in hist.rubric_calls \cup hist.rubric_writes :
                  \E j \in hist.todo : j # i /\ Within(j, n)
            /\ subs[i].grade = "" /\ subs[i].conf = ""
            /\ \A k \in 1..Len(winners) :
                  \A n \in 1..Len(winners[k].names) :
                      winners[k].names[n] = display_name(subs[i]) =>
                          \E j \in EligibleFor(WindowOf(k)) :
                              j # i /\ display_name(subs[j]) = display_name(subs[i])

\* C31 witness: after a grading pass that graded another row and a winner
\* run that recorded a winner, a submission outside every window of its game
\* type, marked Correct by an editor, is ungraded.
C31_Witness ==
    /\ hist.op = "populate"
    /\ \E k \in 1..Len(winners) : winners[k].names # <<>>
    /\ hist.calls # {}
    /\ \E i \in 1..Len(subs) :
          NoWindow(i) /\ subs[i].grade = "" /\ subs[i].override = "Correct"


\* C32: exclusion respected.  After a run, in every window where some
\* eligible correct entry has an email whose lowercase form is not in the
\* exclusion set, the lowercase form of the recorded Swag Winner Email is
\* not in the exclusion set, whether the swag winner was kept from the
\* stored record or drawn in this run.
C32_ExclusionRespected ==
    hist.op = "populate" =>
        \A k \in 1..Len(winners) :
            (\E i \in EligibleFor(WindowOf(k)) : Lower(subs[i].email) \notin Excluded) =>
                /\ winners[k].swag_email # ""
                /\ Lower(winners[k].swag_email) \notin Excluded

\* C32 witness: a run over a window with an excluded and a non-excluded
\* eligible entry, whose stored record named the entry that is now excluded,
\* records the non-excluded one.
C32_Witness ==
    /\ hist.op = "populate"
    /\ \E k \in 1..Len(winners) :
          /\ \E i, j \in EligibleFor(WindowOf(k)) :
                /\ Lower(subs[i].email) \in Excluded
                /\ Lower(subs[j].email) \notin Excluded
                /\ winners[k].swag_email = subs[j].email
                /\ \E r \in 1..Len(hist.prior) :
                      /\ StoredKey(hist.prior[r])
                            = <<winners[k].start, winners[k].end, winners[k].game>>
                      /\ hist.prior[r].swag_email = subs[i].email


\* C33: eventual completion.  When the backend stops failing,
\* never_fail_api_call eventually returns and every wait it starts is slept
\* to its end; when the phase functions stop raising, every wait of
\* never_fail_execute is slept to its end and never_fail_execute eventually
\* returns from every phase, so that the script ends, unless the user
\* interrupts it.
C33_EventualCompletion ==
    /\ (wrapper # Idle /\ wrapper.pc = "call") ~> (wrapper # Idle /\ wrapper.pc = "returned")
    /\ (wrapper # Idle /\ wrapper.pc = "wait") ~> (wrapper # Idle /\ wrapper.pc = "call")
    /\ (run # Idle /\ run.total_wait > 0) ~> (run # Idle /\ run.total_wait = 0)
    /\ (run # Idle /\ run.status = "running") ~> (run # Idle /\ run.status = "exited")

\* C33 witness: never_fail_api_call is about to call again after a chunked
\* wait of MaxAttempts - 1 failures, or never_fail_execute after the waits
\* of MaxExecAttempts failures of a phase.
C33_Witness ==
    \/ /\ wrapper # Idle
       /\ wrapper.pc = "call" /\ wrapper.attempt = MaxAttempts - 1
       /\ wrapper.chunked /\ wrapper.slept > 30
    \/ /\ run # Idle
       /\ run.status = "running" /\ run.attempt = MaxExecAttempts
       /\ run.total_wait = 0 /\ run.wait_time > 60


\* The Games sheet row of the window the pass matched for Submissions row i.
MatchedRow(i) == RowMatch(hist.preSubs[i], build_games_index(games)).row_number

\* C34: within one grading pass the rubric of a matched window is generated
\* and written to its Games row at most once: no two submissions of the pass
\* for which the rubric was generated and written match the same Games row.
C34_RubricOncePerPass ==
    hist.op \in {"grade", "grade_failed"} =>
        \A i, j \in hist.rubric_rows : i # j => MatchedRow(i) # MatchedRow(j)


\* The Games sheet row of the window the grading pass matches for the game
\* type and the timestamp of Submissions row i.
GradedAgainst(i) ==
    GradeMatch(Strip(subs[i].game), _parse_dt_safe(Strip(subs[i].ts)),
               build_games_index(games)).row_number

\* Submissions row i contributes to the record of the k-th window: it is an
\* eligible correct entry of the window and its display name is in the
\* Winners list of the record.
Contributes(i, k) ==
    /\ i \in EligibleFor(WindowOf(k))
    /\ \E n \in 1..Len(winners[k].names) : winners[k].names[n] = display_name(subs[i])

\* C35: after a winner run, a graded submission contributes to at most one
\* record, and that record is the one of the window the grading pass matched
\* for the submission, also when windows of its game type overlap.
C35_OneRecordOfGradedWindow ==
    hist.op = "populate" =>
        \A i \in 1..Len(subs) :
            subs[i].grade # "" =>
                /\ \A k \in 1..Len(winners) :
                      Contributes(i, k) => WindowOf(k).row = GradedAgainst(i)
                /\ \A k, l \in 1..Len(winners) :
                      (Contributes(i, k) /\ Contributes(i, l)) => k = l


\* C36: in every record a run writes with a non-empty Swag Winner, the Swag
\* Winner Email is, case-insensitively, one of the addresses of the record's
\* Winner Emails, also when two eligible entries share a display name and
\* have different emails.
C36_SwagEmailAmongWinnerEmails ==
    hist.op = "populate" =>
        \A k \in 1..Len(winners) :
            winners[k].swag # "" =>
                \E n \in 1..Len(winners[k].emails) :
                    Lower(winners[k].emails[n]) = Lower(winners[k].swag_email)


\* C37: link backfill never overwrites.  No run of fetch_emails_for_label
\* changes a non-empty Link cell of a stored row, also when the read of the
\* cell fails.
C37_LinkNeverOverwritten ==
    [][\A i \in 1..Len(subs) : subs[i].link # "" => subs'[i].link = subs[i].link]_vars


\* C38: game attribution.  Every Submissions row with Game G that a fetch
\* appended links to a message that carries the label whose id the
\* environment configures for G; with no label id configured for G there is
\* no row with Game G.
C38_RowsCarryTheGamesLabel ==
    \A i \in 1..Len(subs) :
        /\ call.environ[LabelIdEnv(subs[i].game)] # ""
        /\ \E k \in 1..Len(mailbox) :
              /\ subs[i].link = MsgLink(mailbox[k].id)
              /\ mailbox[k].label = call.environ[LabelIdEnv(subs[i].game)]


\* Rows a and b are equal in every column but the one named c.
SameBut(a, b, c) ==
    \A k \in DOMAIN a : k # c => a[k] = b[k]

\* The field of the model's rows for a column header.
FieldOf(header_name) ==
    CASE header_name = "First Name" -> "first"
      [] header_name = "Last Name Initial" -> "last"
      [] header_name = "Timestamp" -> "ts"

\* C39: the reformatting phases preserve dedup keys.  After
\* reformat_first_names, reformat_last_initials or
\* reformat_submission_timestamps every Submissions data row has the dedup
\* key it had before, whatever timestamp text its cell held, a text with a
\* UTC offset included, and no cell outside the named column has changed.
C39_ReformatKeepsKeys ==
    hist.op \in {"First Name", "Last Name Initial", "Timestamp"} =>
        /\ Len(subs) = Len(hist.pre)
        /\ \A i \in 1..Len(subs) :
              /\ RowKey(subs[i]) = RowKey(hist.pre[i])
              /\ SameBut(subs[i], hist.pre[i], FieldOf(hist.op))

====
